---- MODULE Spec2Model ----
(***************************************************************************)
(* Model of domain-mcp's multi-source resolution pipeline:                 *)
(*   tools/domain.rs   normalize_domain, check_availability, bulk_check    *)
(*   tools/whois.rs    lookup, lookup_command_line_whois, extract_field    *)
(*   tools/rdap.rs     RdapClient::lookup_domain, extract_* helpers        *)
(*   tools/dns.rs      lookup                                              *)
(*   tools/expired.rs  search_expired_domains and its four source adapters *)
(*   tools/domain_age_check.rs  check_age, parse_date_and_calculate_age    *)
(* Strings are sequences of one-character strings; texts produced by       *)
(* external programs are sequences of tokens.                              *)
(***************************************************************************)
EXTENDS Integers, Sequences, FiniteSets, TLC

VARIABLES
    nIn, nOut, nOut2, nPc,                 \* normalizer driver
    wDomain, wPc, wRdap, wErr, wCmd, wCalls, wResult,     \* whois::lookup
    dPc, dRes,                             \* dns::lookup
    aIn, aPc, aResult,                     \* check_availability
    bDomains, bPc, bTask, bOrder, bResults, bOut,         \* bulk_check
    eIn, ePc, eDomains, eSeen, eLog, eRet, eOut,          \* search_expired_domains
    qIssued, qLast, qOut,                  \* dns::lookup: its queries and its result
    wLog, wUrl,                            \* RdapClient: its requests, the bootstrap URL
    gIn, gPc, gWhois, gNow, gOut           \* check_age

nVars == <<nIn, nOut, nOut2, nPc>>
wVars == <<wDomain, wPc, wRdap, wErr, wCmd, wCalls, wResult>>
dVars == <<dPc, dRes>>
aVars == <<aIn, aPc, aResult>>
bVars == <<bDomains, bPc, bTask, bOrder, bResults, bOut>>
eVars == <<eIn, ePc, eDomains, eSeen, eLog, eRet, eOut>>
qVars == <<qIssued, qLast, qOut>>
lVars == <<wLog, wUrl>>
gVars == <<gIn, gPc, gWhois, gNow, gOut>>
vars == <<nVars, wVars, dVars, aVars, bVars, eVars, qVars, lVars, gVars>>

\* Option<T>: None is the empty sequence, Some(v) the one-element sequence
None == <<>>

Some(v) == <<v>>

IsSome(o) == o # <<>>

Unwrap(o) == o[1]

\* Result<T>: Ok(v) / Err(e); Pending before the call has returned
Ok(v) == [tag |-> "Ok", val |-> v]

Err(e) == [tag |-> "Err", val |-> e]

Pending == [tag |-> "Pending", val |-> <<>>]

\* ------------------------------------------------------------------------
\* Strings
\* ------------------------------------------------------------------------

\* The longest input, in chunks, handed to the normalizer driver.
MaxChunks == 3

S_space == <<" ">>
S_slash == <<"/">>
S_http == <<"h", "t", "t", "p", ":", "/", "/">>
S_https == <<"h", "t", "t", "p", "s", ":", "/", "/">>
S_www == <<"w", "w", "w", ".">>
S_HTTP == <<"H", "T", "T", "P", ":", "/", "/">>
S_WWW == <<"W", "W", "W", ".">>
S_host == <<"a", ".", "c", "o", "m">>
S_path == <<"/", "p">>

Chunks == {S_space, S_slash, S_http, S_https, S_www, S_HTTP, S_WWW, S_host, S_path}

RECURSIVE Flatten(_)
Flatten(ss) == IF ss = <<>> THEN <<>> ELSE Head(ss) \o Flatten(Tail(ss))

ChunkSeqs == UNION {[1..n -> Chunks] : n \in 0..MaxChunks}

NormInputs == {Flatten(cs) : cs \in ChunkSeqs}

\* char::is_whitespace, restricted to the characters of the model
IsWhitespace(c) == c \in {" ", "\t", "\n"}

LowerOf(c) ==
    CASE c = "H" -> "h"
      [] c = "T" -> "t"
      [] c = "P" -> "p"
      [] c = "W" -> "w"
      [] c = "S" -> "s"
      [] c = "C" -> "c"
      [] c = "O" -> "o"
      [] c = "M" -> "m"
      [] c = "J" -> "j"
      [] c = "F" -> "f"
      [] c = "A" -> "a"
      [] c = "N" -> "n"
      [] c = "D" -> "d"
      [] OTHER -> c

\* str::to_lowercase
to_lowercase(s) == [i \in 1..Len(s) |-> LowerOf(s[i])]

RECURSIVE trim_start(_)
trim_start(s) ==
    IF s # <<>> /\ IsWhitespace(Head(s)) THEN trim_start(Tail(s)) ELSE s

RECURSIVE trim_end(_)
trim_end(s) ==
    IF s # <<>> /\ IsWhitespace(s[Len(s)])
    THEN trim_end(SubSeq(s, 1, Len(s) - 1))
    ELSE s

\* str::trim
trim(s) == trim_end(trim_start(s))

StartsWith(s, p) == Len(p) <= Len(s) /\ SubSeq(s, 1, Len(p)) = p

EndsWith(s, p) == Len(p) <= Len(s) /\ SubSeq(s, Len(s) - Len(p) + 1, Len(s)) = p

DropPrefix(s, n) == SubSeq(s, n + 1, Len(s))

\* strip_prefix-like variant: removes the pattern at most once
trim_start_matches_once(s, p) ==
    IF p # <<>> /\ StartsWith(s, p) THEN DropPrefix(s, Len(p)) ELSE s

\* str::trim_start_matches: all prefixes that match are removed repeatedly
RECURSIVE trim_start_matches(_, _)
trim_start_matches(s, p) ==
    IF p # <<>> /\ StartsWith(s, p)
    THEN trim_start_matches(DropPrefix(s, Len(p)), p)
    ELSE s

\* str::trim_end_matches: all suffixes that match are removed repeatedly
RECURSIVE trim_end_matches(_, _)
trim_end_matches(s, p) ==
    IF p # <<>> /\ EndsWith(s, p)
    THEN trim_end_matches(SubSeq(s, 1, Len(s) - Len(p)), p)
    ELSE s

normalize_domain(domain) ==
    trim_end_matches(
        trim_start_matches(
            trim_start_matches(
                trim_start_matches(to_lowercase(trim(domain)), S_http),
                S_https),
            S_www),
        S_slash)

\* ------------------------------------------------------------------------
\* Domains and the RDAP directory
\* ------------------------------------------------------------------------

S_com == <<"c", "o", "m">>
S_net == <<"n", "e", "t">>
S_org == <<"o", "r", "g">>
S_info == <<"i", "n", "f", "o">>
S_io == <<"i", "o">>
S_co == <<"c", "o">>
S_me == <<"m", "e">>
S_tv == <<"t", "v">>
S_app == <<"a", "p", "p">>
S_dev == <<"d", "e", "v">>
S_cloud == <<"c", "l", "o", "u", "d">>

\* RdapClient::new: the keys of rdap_base_urls
RdapDirectory ==
    {S_com, S_net, S_org, S_info, S_io, S_co, S_me, S_tv, S_app, S_dev, S_cloud}

\* "b.xyz": a domain whose TLD is not in the directory
S_other == <<"b", ".", "x", "y", "z">>

\* The domains handed to whois::lookup
Domains == {S_host, S_other}

\* domain.split('.').next_back(): the text after the last '.', the whole
\* string when it has none
RECURSIVE LastLabel(_)
LastLabel(s) ==
    IF \E i \in 1..Len(s) : s[i] = "."
    THEN LastLabel(Tail(s))
    ELSE s

\* ------------------------------------------------------------------------
\* Texts: the output of the whois program and the serialized RDAP document
\* are sequences of tokens; NL is the line break. Words of one line are
\* separated by single spaces.
\* ------------------------------------------------------------------------

NL == "\n"

\* A byte sequence that is not valid UTF-8, and what from_utf8_lossy puts
\* in its place
BadByte == "0xFF"

Replacement == "U+FFFD"

\* String::from_utf8_lossy(&output.stdout).to_string()
from_utf8_lossy(bytes) ==
    [i \in 1..Len(bytes) |-> IF bytes[i] = BadByte THEN Replacement ELSE bytes[i]]

\* str::contains for a phrase that is one token of the text
Contains(text, phrase) == \E i \in 1..Len(text) : text[i] = phrase

\* Index of the first line break at or after i, Len+1 when there is none
RECURSIVE LineEnd(_, _)
LineEnd(text, i) ==
    IF i > Len(text) \/ text[i] = NL THEN i ELSE LineEnd(text, i + 1)

\* Index of the first token at or after i that is not a line break
RECURSIVE SkipSpace(_, _)
SkipSpace(text, i) ==
    IF i <= Len(text) /\ text[i] = NL THEN SkipSpace(text, i + 1) ELSE i

\* Whether the regex  label\s*(.+)  matches with label starting at i
MatchesAt(text, label, i) ==
    /\ i + Len(label) - 1 <= Len(text)
    /\ SubSeq(text, i, i + Len(label) - 1) = label
    /\ SkipSpace(text, i + Len(label)) <= Len(text)

\* The capture group of that match: the rest of the line the value is on
CaptureAt(text, label, i) ==
    LET from == SkipSpace(text, i + Len(label))
    IN  SubSeq(text, from, LineEnd(text, from) - 1)

\* Start positions of all matches of  label\s*(.+)  in the text
MatchStarts(text, label) == {i \in 1..Len(text) : MatchesAt(text, label, i)}

Min(S) == CHOOSE x \in S : \A y \in S : x <= y

\* Regex::captures: the leftmost match, None when the pattern matches nowhere
Captures(text, label) ==
    IF MatchStarts(text, label) = {} THEN None
    ELSE Some(CaptureAt(text, label, Min(MatchStarts(text, label))))

\* Regex::captures_iter: the captures of the successive non-overlapping
\* matches, searching from position i on
RECURSIVE CapturesIter(_, _, _)
CapturesIter(text, label, i) ==
    LET starts == {j \in MatchStarts(text, label) : j >= i}
    IN  IF starts = {} THEN <<>>
        ELSE LET j == Min(starts)
                 from == SkipSpace(text, j + Len(label))
             IN  <<CaptureAt(text, label, j)>>
                    \o CapturesIter(text, label, LineEnd(text, from))

\* An extraction that takes the pattern whose match starts first in the text
extract_field_leftmost(text, patterns) ==
    LET hits == {k \in 1..Len(patterns) : MatchStarts(text, patterns[k]) # {}}
    IN  IF hits = {} THEN None
        ELSE Captures(text, patterns[CHOOSE k \in hits : \A j \in hits :
                                        Min(MatchStarts(text, patterns[k]))
                                            <= Min(MatchStarts(text, patterns[j]))])

\* whois.rs extract_field: the first pattern of the list that matches wins
RECURSIVE extract_field(_, _)
extract_field(text, patterns) ==
    IF patterns = <<>> THEN None
    ELSE IF IsSome(Captures(text, Head(patterns)))
         THEN Captures(text, Head(patterns))
         ELSE extract_field(text, Tail(patterns))

InSeq(seq, x) == \E i \in 1..Len(seq) : seq[i] = x

\* servers.push(server) unless servers.contains(&server)
RECURSIVE PushNew(_, _)
PushNew(acc, items) ==
    IF items = <<>> THEN acc
    ELSE PushNew(IF InSeq(acc, Head(items)) THEN acc ELSE Append(acc, Head(items)),
                 Tail(items))

\* whois.rs extract_status: every match of every pattern, in pattern order,
\* without repetition
RECURSIVE ExtractAll(_, _, _)
ExtractAll(text, patterns, acc) ==
    IF patterns = <<>> THEN acc
    ELSE ExtractAll(text, Tail(patterns),
                    PushNew(acc, CapturesIter(text, Head(patterns), 1)))

RegistrarPatterns ==
    << <<"Registrar:">>, <<"Sponsoring", "Registrar:">>, <<"Registrar", "Name:">> >>

RegistrantPatterns ==
    << <<"Registrant", "Organization:">>, <<"Registrant:">>, <<"Organization:">> >>

CreationPatterns ==
    << <<"Creation", "Date:">>, <<"Created:">>,
       <<"Domain", "Registration", "Date:">>, <<"created:">> >>

ExpiryPatterns ==
    << <<"Registry", "Expiry", "Date:">>, <<"Expiry", "Date:">>,
       <<"Expiration", "Date:">>, <<"expires:">> >>

UpdatedPatterns ==
    << <<"Updated", "Date:">>, <<"Last", "Updated:">>, <<"Modified:">>,
       <<"changed:">> >>

NameServerPatterns ==
    << <<"Name", "Server:">>, <<"nserver:">>, <<"NS:">>, <<"Nameservers:">> >>

StatusPatterns == << <<"Domain", "Status:">>, <<"Status:">>, <<"state:">> >>

\* to_lowercase on the tokens of a name-server line
LowerTok(t) ==
    CASE t = "NS1.A.COM" -> "ns1.a.com"
      [] OTHER -> t

LowerAll(caps) ==
    [i \in 1..Len(caps) |-> [j \in 1..Len(caps[i]) |-> LowerTok(caps[i][j])]]

\* whois.rs extract_name_servers: as ExtractAll, each capture lowercased
\* before it is looked up and pushed
RECURSIVE ExtractAllLower(_, _, _)
ExtractAllLower(text, patterns, acc) ==
    IF patterns = <<>> THEN acc
    ELSE ExtractAllLower(text, Tail(patterns),
                         PushNew(acc, LowerAll(CapturesIter(text, Head(patterns), 1))))

extract_name_servers(text) == ExtractAllLower(text, NameServerPatterns, <<>>)

extract_status(text) == ExtractAll(text, StatusPatterns, <<>>)

\* ------------------------------------------------------------------------
\* RDAP documents and the extraction helpers of rdap.rs
\* ------------------------------------------------------------------------

Event(action, date) == [event_action |-> action, event_date |-> date]

\* One vCard entry ["fn", {}, "text", value]: len is the length of the entry
\* array, value is Some(text) when its fourth element is a string
VcardEntry(name, len, value) == [field_name |-> name, len |-> len, value |-> value]

Entity(roles, vcard, handle) == [roles |-> roles, vcard_array |-> vcard, handle |-> handle]

RdapDoc(status, events, entities, nameservers) ==
    [status |-> status, events |-> events, entities |-> entities,
     nameservers |-> nameservers]

DocFull ==
    RdapDoc(Some(<<"active">>),
            Some(<<Event(Some("registration"), Some("D1")),
                   Event(Some("expiration"), Some("D2")),
                   Event(Some("last changed"), Some("D3"))>>),
            Some(<<Entity(Some(<<"registrar">>),
                          Some(<<VcardEntry("version", 4, Some("4.0")),
                                 VcardEntry("fn", 4, Some("R1"))>>),
                          Some("H1"))>>),
            Some(<<Some("ns1.a.com"), None>>))

DocBare == RdapDoc(None, None, None, None)

DocHandle ==
    RdapDoc(Some(<<>>),
            Some(<<Event(Some("last changed"), Some("D3")),
                   Event(Some("registration"), Some("D1"))>>),
            Some(<<Entity(Some(<<"registrant">>),
                          Some(<<VcardEntry("fn", 4, Some("Owner"))>>), None),
                   Entity(Some(<<"registrar">>), None, Some("H2"))>>),
            Some(<<>>))

DocNoName ==
    RdapDoc(Some(<<"redemption period", "inactive">>),
            Some(<<Event(Some("expiration"), None),
                   Event(None, Some("D4")),
                   Event(Some("last update of RDAP database"), Some("D5"))>>),
            Some(<<Entity(Some(<<"registrar">>),
                          Some(<<VcardEntry("fn", 3, Some("R3")),
                                 VcardEntry("fn", 4, None)>>),
                          None),
                   Entity(None, None, Some("H3"))>>),
            None)

\* The documents an RDAP server answers with
RdapDocs == {DocFull, DocBare, DocHandle, DocNoName}

\* events.iter().find(pred).and_then(|e| e.event_date.clone())
FirstEventDate(doc, actions) ==
    IF doc.events = None THEN None
    ELSE LET ev == Unwrap(doc.events)
             hits == {i \in 1..Len(ev) : \E a \in actions : ev[i].event_action = Some(a)}
         IN  IF hits = {} THEN None ELSE ev[Min(hits)].event_date

extract_creation_date(doc) == FirstEventDate(doc, {"registration", "last changed"})

extract_expiry_date(doc) == FirstEventDate(doc, {"expiration"})

extract_updated_date(doc) ==
    FirstEventDate(doc, {"last changed", "last update of RDAP database"})

\* The name of the first "fn" entry of a vCard that has at least four
\* elements and a string as its fourth
VcardName(vcard) ==
    IF vcard = None THEN None
    ELSE LET es == Unwrap(vcard)
             hits == {i \in 1..Len(es) :
                        /\ es[i].len >= 4
                        /\ es[i].field_name = "fn"
                        /\ IsSome(es[i].value)}
         IN  IF hits = {} THEN None ELSE es[Min(hits)].value

\* What one entity contributes: its vCard name, else its handle, and None
\* when it has not the registrar role
EntityRegistrar(e) ==
    IF e.roles # None /\ InSeq(Unwrap(e.roles), "registrar")
    THEN IF IsSome(VcardName(e.vcard_array)) THEN VcardName(e.vcard_array)
         ELSE e.handle
    ELSE None

extract_registrar(doc) ==
    IF doc.entities = None THEN None
    ELSE LET es == Unwrap(doc.entities)
             hits == {i \in 1..Len(es) : IsSome(EntityRegistrar(es[i]))}
         IN  IF hits = {} THEN None ELSE EntityRegistrar(es[Min(hits)])

RECURSIVE FilterSome(_)
FilterSome(opts) ==
    IF opts = <<>> THEN <<>>
    ELSE Head(opts) \o FilterSome(Tail(opts))

\* nameservers.iter().filter_map(|ns| ns.ldh_name.clone()).collect()
extract_nameservers(doc) ==
    IF doc.nameservers = None THEN <<>> ELSE FilterSome(Unwrap(doc.nameservers))

\* rdap.rs extract_status: status.clone().unwrap_or_default()
rdap_extract_status(doc) == IF doc.status = None THEN <<>> ELSE Unwrap(doc.status)

RECURSIVE EventTokens(_)
EventTokens(ev) ==
    IF ev = <<>> THEN <<>>
    ELSE <<"eventAction">> \o Head(ev).event_action
            \o <<"eventDate">> \o Head(ev).event_date \o EventTokens(Tail(ev))

RECURSIVE VcardTokens(_)
VcardTokens(es) ==
    IF es = <<>> THEN <<>>
    ELSE <<Head(es).field_name>> \o Head(es).value \o VcardTokens(Tail(es))

RECURSIVE EntityTokens(_)
EntityTokens(es) ==
    IF es = <<>> THEN <<>>
    ELSE <<"handle">> \o Head(es).handle
            \o <<"vcardArray">>
            \o (IF Head(es).vcard_array = None THEN <<>>
                ELSE VcardTokens(Unwrap(Head(es).vcard_array)))
            \o <<"roles">>
            \o (IF Head(es).roles = None THEN <<>> ELSE Unwrap(Head(es).roles))
            \o EntityTokens(Tail(es))

\* serde_json::to_string_pretty(&rdap_domain): the field names and the
\* string values of the document, in field order
to_string_pretty(doc) ==
    <<"status">> \o rdap_extract_status(doc)
        \o <<"events">>
        \o (IF doc.events = None THEN <<>> ELSE EventTokens(Unwrap(doc.events)))
        \o <<"entities">>
        \o (IF doc.entities = None THEN <<>> ELSE EntityTokens(Unwrap(doc.entities)))
        \o <<"nameservers">> \o extract_nameservers(doc)

\* ------------------------------------------------------------------------
\* Idle values of the components a specification does not run
\* ------------------------------------------------------------------------

NoCalls == [static |-> 0, discovery |-> 0, bootquery |-> 0, spawn |-> 0]

NoCmd == [outcome |-> "none", stdout |-> <<>>, status |-> 0]

NoDns ==
    [domain |-> <<>>, a_records |-> <<>>, aaaa_records |-> <<>>, mx_records |-> <<>>,
     txt_records |-> <<>>, ns_records |-> <<>>, cname_records |-> <<>>,
     soa_record |-> None]

IdleNormalize == nIn = <<>> /\ nOut = <<>> /\ nOut2 = <<>> /\ nPc = "idle"

IdleWhois ==
    /\ wDomain = <<>>
    /\ wPc = "idle"
    /\ wRdap = "pending"
    /\ wErr = <<>>
    /\ wCmd = NoCmd
    /\ wCalls = NoCalls
    /\ wResult = Pending

IdleDns == dPc = 0 /\ dRes = NoDns

IdleAvail == aIn = <<>> /\ aPc = "idle" /\ aResult = Pending

IdleBulk ==
    /\ bDomains = <<>>
    /\ bPc = "idle"
    /\ bTask = <<>>
    /\ bOrder = <<>>
    /\ bResults = <<>>
    /\ bOut = Pending

IdleRdapLog == wLog = <<>> /\ wUrl = None

NoInstant == [days |-> 0, ms |-> 0]

IdleAge ==
    /\ gIn = <<>>
    /\ gPc = "idle"
    /\ gWhois = Pending
    /\ gNow = NoInstant
    /\ gOut = Pending

NoInput == [keyword |-> <<>>, tld |-> <<>>]

NoReturns == [k \in 1..4 |-> Pending]

IdleExpired ==
    /\ eIn = NoInput
    /\ ePc = "idle"
    /\ eDomains = <<>>
    /\ eSeen = {}
    /\ eLog = <<>>
    /\ eRet = NoReturns
    /\ eOut = Pending

NoResponse == [kind |-> "none", answers |-> <<>>]

IdleQueries == qIssued = <<>> /\ qLast = NoResponse /\ qOut = Pending

\* ------------------------------------------------------------------------
\* Normalizer: normalize_domain applied to an input, then to its own output
\* ------------------------------------------------------------------------

InitNormalize ==
    /\ nIn \in NormInputs
    /\ nOut = <<>>
    /\ nOut2 = <<>>
    /\ nPc = "start"
    /\ IdleWhois /\ IdleDns /\ IdleAvail /\ IdleBulk /\ IdleExpired /\ IdleQueries
    /\ IdleRdapLog /\ IdleAge

Normalize ==
    /\ nPc = "start"
    /\ nOut' = normalize_domain(nIn)
    /\ nPc' = "normalized"
    /\ UNCHANGED <<nIn, nOut2, wVars, dVars, aVars, bVars, eVars, qVars, lVars, gVars>>

Renormalize ==
    /\ nPc = "normalized"
    /\ nOut2' = normalize_domain(nOut)
    /\ nPc' = "done"
    /\ UNCHANGED <<nIn, nOut, wVars, dVars, aVars, bVars, eVars, qVars, lVars, gVars>>

NextNormalize == Normalize \/ Renormalize

SpecNormalize == InitNormalize /\ [][NextNormalize]_vars

\* ------------------------------------------------------------------------
\* whois::lookup: RDAP (static server, then bootstrap), then the whois
\* program, then the Unknown record. One action per external call.
\* ------------------------------------------------------------------------

\* The longest output of the whois program, in lines
MaxLines == 2

WhoisLines ==
    { <<"Registrar:", "R1">>,
      <<"Sponsoring", "Registrar:", "R2">>,
      <<"Registrar:">>,
      <<"Registrar", "Name:", "N1">>,
      <<"NOT FOUND">>,
      <<"No matching record">>,
      <<"Name", "Server:", "NS1.A.COM">>,
      <<"Creation", "Date:", "D1">>,
      <<BadByte>> }

RECURSIVE JoinLines(_)
JoinLines(ls) == IF ls = <<>> THEN <<>> ELSE Head(ls) \o <<NL>> \o JoinLines(Tail(ls))

\* What the whois program may write to its standard output
Stdouts == {JoinLines(ls) : ls \in UNION {[1..n -> WhoisLines] : n \in 0..MaxLines}}

ExitStatuses == {0, 1}

WhoisInfo(domain, rr, rt, created, expiry, updated, ns, status, raw, rdap) ==
    [domain |-> domain, registrar |-> rr, registrant |-> rt,
     creation_date |-> created, expiry_date |-> expiry, updated_date |-> updated,
     name_servers |-> ns, status |-> status, raw_data |-> raw,
     rdap_available |-> rdap]

\* A record that also fills the registrant, from the registrar entity
WhoisFromRdap_merged(domain, doc) ==
    WhoisInfo(domain, extract_registrar(doc), extract_registrar(doc),
              extract_creation_date(doc), extract_expiry_date(doc),
              extract_updated_date(doc), extract_nameservers(doc),
              rdap_extract_status(doc), to_string_pretty(doc), TRUE)

\* whois::lookup, the Ok(rdap_domain) arm
WhoisFromRdap(domain, doc) ==
    WhoisInfo(domain, extract_registrar(doc), None, extract_creation_date(doc),
              extract_expiry_date(doc), extract_updated_date(doc),
              extract_nameservers(doc), rdap_extract_status(doc),
              to_string_pretty(doc), TRUE)

\* lookup_command_line_whois, once the process has run
lookup_command_line_whois(domain, stdout) ==
    LET raw_data == from_utf8_lossy(stdout)
    IN  WhoisInfo(domain,
                  extract_field(raw_data, RegistrarPatterns),
                  extract_field(raw_data, RegistrantPatterns),
                  extract_field(raw_data, CreationPatterns),
                  extract_field(raw_data, ExpiryPatterns),
                  extract_field(raw_data, UpdatedPatterns),
                  extract_name_servers(raw_data),
                  extract_status(raw_data),
                  raw_data, FALSE)

\* anyhow!("RDAP lookup failed for domain: {}", domain)
RdapError(domain) == <<"RDAP lookup failed for domain:">> \o domain

\* whois::lookup, the arm taken when the whois program could not be run
WhoisUnknown(domain, e) ==
    WhoisInfo(domain, None, None, None, None, None, <<>>, <<>>,
              <<"RDAP lookup failed:">> \o e, FALSE)

\* A lookup that hands the failure of the whois program to its caller
UnknownResult_propagates(domain, e) == Err(e)

\* whois::lookup, Err(_) arm of the fallback: Ok with the Unknown record
UnknownResult(domain, e) == Ok(WhoisUnknown(domain, e))

\* A fallback that keeps the payload only when a registrar was extracted
CommandLineResult_dropsRaw(domain, stdout) ==
    LET info == lookup_command_line_whois(domain, stdout)
    IN  Ok([info EXCEPT !.rdap_available = FALSE,
                        !.raw_data = IF info.registrar = None THEN <<>> ELSE @])

\* whois::lookup, Ok(mut whois_info) arm of the fallback: rdap_available is
\* reset on the record lookup_command_line_whois built
CommandLineResult(domain, stdout) ==
    Ok([lookup_command_line_whois(domain, stdout) EXCEPT !.rdap_available = FALSE])

\* lookup_domain fails: whois::lookup goes on to the whois program
RdapFailed ==
    /\ wRdap' = "err"
    /\ wErr' = RdapError(wDomain)
    /\ wPc' = "cmdline"
    /\ UNCHANGED <<wDomain, wCmd, wResult>>

\* A lookup that builds the RDAP record and falls through to the fallback
RdapSucceeded_fallsThrough(doc) ==
    /\ wRdap' = "ok"
    /\ wResult' = Ok(WhoisFromRdap(wDomain, doc))
    /\ wPc' = "cmdline"
    /\ UNCHANGED <<wDomain, wErr, wCmd>>

\* lookup_domain succeeds with a document: whois::lookup returns
RdapSucceeded(doc) ==
    /\ wRdap' = "ok"
    /\ wResult' = Ok(WhoisFromRdap(wDomain, doc))
    /\ wPc' = "done"
    /\ UNCHANGED <<wDomain, wErr, wCmd>>

\* A serde_json::Value of the discovery body: a string, an array, a number
JStr(text) == [kind |-> "str", s |-> text, items |-> <<>>]

JArr(values) == [kind |-> "arr", s |-> <<>>, items |-> values]

JNum == [kind |-> "num", s |-> <<>>, items |-> <<>>]

S_u1 == <<"u", "1">>
S_u2 == <<"u", "2">>

\* RdapBootstrapResponse.services: Option<Vec<Vec<Value>>>
ServiceLists ==
    { None,
      Some(<<>>),
      Some(<< <<>> >>),
      Some(<< <<JStr(S_u1)>> >>),
      Some(<< <<JArr(<<>>)>> >>),
      Some(<< <<JArr(<<JNum>>)>> >>),
      Some(<< <<JArr(<<JStr(S_u1), JStr(S_u2)>>)>> >>),
      Some(<< <<JArr(<<JStr(S_u2)>>), JArr(<<JStr(S_u1)>>)>>, <<JArr(<<JStr(S_u1)>>)>> >>) }

\* What a GET of an RDAP document comes back with
QueryResponses ==
    {[kind |-> k, doc |-> None] : k \in {"send_err", "status", "decode_err"}}
    \cup {[kind |-> "ok", doc |-> Some(d)] : d \in RdapDocs}

\* What the GET of the discovery service comes back with
DiscoveryResponses ==
    {[kind |-> k, services |-> None] : k \in {"send_err", "status", "decode_err"}}
    \cup {[kind |-> "ok", services |-> sv] : sv \in ServiceLists}

\* A bootstrap_lookup that takes the last address of the list
FirstAdvertisedUrl_last(services) ==
    IF services = None THEN None
    ELSE LET sv == Unwrap(services)
         IN  IF sv = <<>> \/ sv[1] = <<>> THEN None
             ELSE IF sv[1][1].kind # "arr" \/ sv[1][1].items = <<>> THEN None
             ELSE LET last == sv[1][1].items[Len(sv[1][1].items)]
                  IN  IF last.kind # "str" THEN None ELSE Some(last.s)

\* bootstrap_lookup, the nested if-lets: services[0].first() as an array,
\* its first() as a string
FirstAdvertisedUrl(services) ==
    IF services = None THEN None
    ELSE LET sv == Unwrap(services)
         IN  IF sv = <<>> \/ sv[1] = <<>> THEN None
             ELSE IF sv[1][1].kind # "arr" \/ sv[1][1].items = <<>> THEN None
             ELSE IF sv[1][1].items[1].kind # "str" THEN None
             ELSE Some(sv[1][1].items[1].s)

\* rdap_base_urls.get(tld): the directory's server for the TLD
BaseUrl(tld) == <<"rdap:">> \o tld

\* format!("{}/domain/{}", base_url, domain)
DomainUrl(base, domain) == base \o <<"/domain/">> \o domain

\* A lookup_domain that asks the directory's server a second time before it
\* goes on to the discovery service
RdapStaticQuery_retries(resp) ==
    /\ wPc = "rdap"
    /\ LastLabel(wDomain) \in RdapDirectory
    /\ wCalls' = [wCalls EXCEPT !.static = @ + 1]
    /\ IF resp.kind = "ok"
       THEN RdapSucceeded(Unwrap(resp.doc))
       ELSE /\ wPc' = IF wCalls.static = 0 THEN "rdap" ELSE "bootstrap"
            /\ UNCHANGED <<wDomain, wRdap, wErr, wCmd, wResult>>

\* lookup_domain: query_rdap_server on the directory's server for the TLD
RdapStaticQuery(resp) ==
    /\ wPc = "rdap"
    /\ LastLabel(wDomain) \in RdapDirectory
    /\ wCalls' = [wCalls EXCEPT !.static = @ + 1]
    /\ IF resp.kind = "ok"
       THEN RdapSucceeded(Unwrap(resp.doc))
       ELSE /\ wPc' = "bootstrap"
            /\ UNCHANGED <<wDomain, wRdap, wErr, wCmd, wResult>>

\* A lookup_domain that goes to the discovery service whatever the directory
\* holds for the TLD
RdapBootstrapDiscovery_always(resp) ==
    /\ wPc \in {"bootstrap", "rdap"}
    /\ wCalls' = [wCalls EXCEPT !.discovery = @ + 1]
    /\ IF resp.kind = "ok" /\ FirstAdvertisedUrl(resp.services) # None
       THEN /\ wPc' = "bootquery"
            /\ UNCHANGED <<wDomain, wRdap, wErr, wCmd, wResult>>
       ELSE RdapFailed

\* bootstrap_lookup: the query to the discovery service
RdapBootstrapDiscovery(resp) ==
    /\ \/ wPc = "bootstrap"
       \/ wPc = "rdap" /\ LastLabel(wDomain) \notin RdapDirectory
    /\ wCalls' = [wCalls EXCEPT !.discovery = @ + 1]
    /\ IF resp.kind = "ok" /\ FirstAdvertisedUrl(resp.services) # None
       THEN /\ wPc' = "bootquery"
            /\ UNCHANGED <<wDomain, wRdap, wErr, wCmd, wResult>>
       ELSE RdapFailed

\* bootstrap_lookup: the query to the first advertised server
RdapBootstrapQuery(resp) ==
    /\ wPc = "bootquery"
    /\ wCalls' = [wCalls EXCEPT !.bootquery = @ + 1]
    /\ IF resp.kind = "ok" THEN RdapSucceeded(Unwrap(resp.doc)) ELSE RdapFailed

\* lookup_command_line_whois: spawn_blocking(Command::new("whois").output())
CommandLineWhois(outs) ==
    /\ wPc = "cmdline"
    /\ wCalls' = [wCalls EXCEPT !.spawn = @ + 1]
    /\ wPc' = "done"
    /\ \/ \E out \in outs, st \in ExitStatuses :
            /\ wCmd' = [outcome |-> "ran", stdout |-> out, status |-> st]
            /\ wResult' = CommandLineResult(wDomain, out)
       \/ \E failure \in {"spawn_err", "join_err"} :
            /\ wCmd' = [outcome |-> failure, stdout |-> <<>>, status |-> 0]
            /\ wResult' = UnknownResult(wDomain, wErr)
    /\ UNCHANGED <<wDomain, wRdap, wErr>>

InitWhois ==
    /\ wDomain \in Domains
    /\ wPc = "rdap"
    /\ wRdap = "pending"
    /\ wErr = <<>>
    /\ wCmd = NoCmd
    /\ wCalls = NoCalls
    /\ wResult = Pending
    /\ IdleNormalize /\ IdleDns /\ IdleAvail /\ IdleBulk /\ IdleExpired /\ IdleQueries
    /\ IdleRdapLog /\ IdleAge

\* One request of the RDAP client, as the transport saw it
Request(req, url, resp) ==
    [req |-> req, url |-> url, kind |-> resp.kind,
     services |-> IF req = "discovery" THEN resp.services ELSE None,
     doc |-> IF req = "discovery" THEN None ELSE resp.doc]

WhoisStatic ==
    /\ \E resp \in QueryResponses :
        /\ RdapStaticQuery(resp)
        /\ wLog' = Append(wLog, Request("static", DomainUrl(BaseUrl(LastLabel(wDomain)), wDomain), resp))
    /\ UNCHANGED <<wUrl, nVars, dVars, aVars, bVars, eVars, qVars, gVars>>

WhoisDiscovery ==
    /\ \E resp \in DiscoveryResponses :
        /\ RdapBootstrapDiscovery(resp)
        /\ wLog' = Append(wLog, Request("discovery", wDomain, resp))
        /\ wUrl' = IF resp.kind = "ok" THEN FirstAdvertisedUrl(resp.services) ELSE None
    /\ UNCHANGED <<nVars, dVars, aVars, bVars, eVars, qVars, gVars>>

WhoisBootQuery ==
    /\ \E resp \in QueryResponses :
        /\ RdapBootstrapQuery(resp)
        /\ wLog' = Append(wLog, Request("bootquery", DomainUrl(Unwrap(wUrl), wDomain), resp))
    /\ UNCHANGED <<wUrl, nVars, dVars, aVars, bVars, eVars, qVars, gVars>>

WhoisCommandLine == CommandLineWhois(Stdouts) /\ UNCHANGED <<nVars, dVars, aVars, bVars, eVars, qVars, lVars, gVars>>

NextWhois == WhoisStatic \/ WhoisDiscovery \/ WhoisBootQuery \/ WhoisCommandLine

SpecWhois == InitWhois /\ [][NextWhois]_vars

\* whois::lookup awaited to its end: each call it awaits returns, so a step
\* that can be taken is taken
SpecWhoisFair == SpecWhois /\ WF_vars(NextWhois)

\* ------------------------------------------------------------------------
\* dns::lookup: seven queries to the DNS-over-HTTPS endpoint, one after the
\* other, each parsed into its field of the result
\* ------------------------------------------------------------------------

\* A whitespace-separated token of an answer's data: text, or a decimal
\* number written as sign and magnitude hi * 2^16 + lo with lo < 2^16
Half == 65536

Dec(neg, hi, lo) == [num |-> TRUE, neg |-> neg, hi |-> hi, lo |-> lo, s |-> ""]

Num(n) == Dec(FALSE, 0, n)

Txt(t) == [num |-> FALSE, neg |-> FALSE, hi |-> 0, lo |-> 0, s |-> t]

\* The value of a parsed number, as sign and magnitude
Value(tok) == [neg |-> tok.neg /\ (tok.hi > 0 \/ tok.lo > 0), hi |-> tok.hi, lo |-> tok.lo]

Zero == [neg |-> FALSE, hi |-> 0, lo |-> 0]

\* str::parse::<u16>: a number in 0..65535 (a '-' sign is rejected)
parse_u16(tok) == IF tok.num /\ ~tok.neg /\ tok.hi = 0 THEN Some(tok.lo) ELSE None

\* str::parse::<u32>: a number in 0..2^32-1 (a '-' sign is rejected)
parse_u32(tok) == IF tok.num /\ ~tok.neg /\ tok.hi < Half THEN Some(Value(tok)) ELSE None

\* str::parse::<i32>: a number in -2^31..2^31-1
parse_i32(tok) ==
    IF /\ tok.num
       /\ \/ ~tok.neg /\ tok.hi < Half \div 2
          \/ tok.neg /\ (tok.hi < Half \div 2 \/ (tok.hi = Half \div 2 /\ tok.lo = 0))
    THEN Some(Value(tok))
    ELSE None

unwrap_or(o, d) == IF o = None THEN d ELSE Unwrap(o)

\* The order in which dns::lookup issues its queries
RecordTypes == <<"A", "AAAA", "MX", "TXT", "NS", "CNAME", "SOA">>

DnsDone == Len(RecordTypes) + 1

\* The answer lists a successful response may carry, per record type; the
\* data of MX and SOA answers is given already split on whitespace
AnswerLists(type) ==
    CASE type = "A" -> {<<>>, <<"192.0.2.1">>}
      [] type = "AAAA" -> {<<>>, <<"2001:db8::1">>}
      [] type = "MX" -> {<<>>, << <<Txt("mail")>>, <<Num(10), Txt("mail")>> >>}
      [] type = "TXT" -> {<<>>, <<"v=spf1">>}
      [] type = "NS" -> {<<>>, <<"ns1.a.com">>}
      [] type = "CNAME" -> {<<>>, <<"alias">>}
      [] type = "SOA" ->
            {<<>>,
             << <<Txt("ns1"), Txt("admin"), Num(7), Num(3600), Txt("x"),
                  Dec(FALSE, Half - 1, Half - 1), Num(60)>> >>}

\* What the endpoint does with one query
DnsResponses(type) ==
    {[kind |-> k, answers |-> <<>>] : k \in {"send_err", "decode_err", "status", "no_answer"}}
        \cup {[kind |-> "answers", answers |-> a] : a \in AnswerLists(type)}

\* dns.rs cloudflare_dns_lookup
cloudflare_dns_lookup(resp) ==
    CASE resp.kind \in {"send_err", "decode_err"} -> Err(resp.kind)
      [] resp.kind = "status" -> Ok(<<>>)
      [] resp.kind = "no_answer" -> Ok(<<>>)
      [] OTHER -> Ok(resp.answers)

\* .unwrap_or_default() on a query's result
unwrap_or_default(res) == IF res.tag = "Ok" THEN res.val ELSE <<>>

\* A closure that takes any unsigned number for a priority
MxOf_anyNumber(parts) ==
    IF Len(parts) >= 2 /\ IsSome(parse_u32(parts[1]))
    THEN Some([priority |-> parts[1].lo, exchange |-> parts[2].s])
    ELSE None

\* The filter_map closure of the MX query
MxOf(parts) ==
    IF Len(parts) >= 2 /\ IsSome(parse_u16(parts[1]))
    THEN Some([priority |-> Unwrap(parse_u16(parts[1])), exchange |-> parts[2].s])
    ELSE None

RECURSIVE MxRecords(_)
MxRecords(records) ==
    IF records = <<>> THEN <<>>
    ELSE MxOf(Head(records)) \o MxRecords(Tail(records))

\* An SOA arm that wants seven tokens and no more
SoaOf_exactlySeven(res) ==
    IF res.tag # "Ok" \/ res.val = <<>> THEN None
    ELSE LET parts == res.val[1]
         IN  IF Len(parts) = 7
             THEN Some([primary_ns |-> parts[1].s,
                        responsible_party |-> parts[2].s,
                        serial |-> unwrap_or(parse_u32(parts[3]), Zero),
                        refresh |-> unwrap_or(parse_i32(parts[4]), Zero),
                        retry |-> unwrap_or(parse_i32(parts[5]), Zero),
                        expire |-> unwrap_or(parse_i32(parts[6]), Zero),
                        minimum |-> unwrap_or(parse_u32(parts[7]), Zero)])
             ELSE None

\* The SOA arm of dns::lookup
SoaOf(res) ==
    IF res.tag # "Ok" \/ res.val = <<>> THEN None
    ELSE LET parts == res.val[1]
         IN  IF Len(parts) >= 7
             THEN Some([primary_ns |-> parts[1].s,
                        responsible_party |-> parts[2].s,
                        serial |-> unwrap_or(parse_u32(parts[3]), Zero),
                        refresh |-> unwrap_or(parse_i32(parts[4]), Zero),
                        retry |-> unwrap_or(parse_i32(parts[5]), Zero),
                        expire |-> unwrap_or(parse_i32(parts[6]), Zero),
                        minimum |-> unwrap_or(parse_u32(parts[7]), Zero)])
             ELSE None

\* A lookup in which a failed query wipes what the earlier ones found
DnsField_taints(res, type, r) ==
    IF r.tag = "Err" THEN [NoDns EXCEPT !.domain = res.domain]
    ELSE CASE type = "A" -> [res EXCEPT !.a_records = unwrap_or_default(r)]
           [] type = "AAAA" -> [res EXCEPT !.aaaa_records = unwrap_or_default(r)]
           [] type = "MX" -> [res EXCEPT !.mx_records = MxRecords(r.val)]
           [] type = "TXT" -> [res EXCEPT !.txt_records = unwrap_or_default(r)]
           [] type = "NS" -> [res EXCEPT !.ns_records = unwrap_or_default(r)]
           [] type = "CNAME" -> [res EXCEPT !.cname_records = unwrap_or_default(r)]
           [] type = "SOA" -> [res EXCEPT !.soa_record = SoaOf(r)]

\* The field of DnsLookupResult the query of a type fills in
DnsField(res, type, r) ==
    CASE type = "A" -> [res EXCEPT !.a_records = unwrap_or_default(r)]
      [] type = "AAAA" -> [res EXCEPT !.aaaa_records = unwrap_or_default(r)]
      [] type = "MX" ->
            [res EXCEPT !.mx_records = IF r.tag = "Ok" THEN MxRecords(r.val) ELSE <<>>]
      [] type = "TXT" -> [res EXCEPT !.txt_records = unwrap_or_default(r)]
      [] type = "NS" -> [res EXCEPT !.ns_records = unwrap_or_default(r)]
      [] type = "CNAME" -> [res EXCEPT !.cname_records = unwrap_or_default(r)]
      [] type = "SOA" -> [res EXCEPT !.soa_record = SoaOf(r)]

\* dns::lookup: the next query and the parsing of its result
DnsQuery ==
    /\ dPc \in 1..Len(RecordTypes)
    /\ \E resp \in DnsResponses(RecordTypes[dPc]) :
         dRes' = DnsField(dRes, RecordTypes[dPc], cloudflare_dns_lookup(resp))
    /\ dPc' = dPc + 1

\* ------------------------------------------------------------------------
\* dns::lookup on its own, over MX and SOA answers of every form
\* ------------------------------------------------------------------------

\* The longest MX answer list
MaxAnswers == 3

\* MX data, split on whitespace: one token, priority and exchange, the
\* largest u16, 65536, a negative number, a word, three tokens, no token
MxLines ==
    { <<Txt("mail")>>,
      <<Num(10), Txt("mx1")>>,
      <<Num(Half - 1), Txt("mx2")>>,
      <<Dec(FALSE, 1, 0), Txt("mx3")>>,
      <<Dec(TRUE, 0, 5), Txt("mx4")>>,
      <<Txt("ten"), Txt("mx5")>>,
      <<Num(20), Txt("mx6"), Txt("extra")>>,
      <<>> }

SoaGood == <<Txt("ns1"), Txt("admin"), Num(7), Num(3600), Num(600), Num(86400), Num(60)>>

\* serial a word, refresh 2^31, retry -2^31, expire -2^31 - 1, minimum -1
SoaBad ==
    <<Txt("ns1"), Txt("admin"), Txt("x"), Dec(FALSE, Half \div 2, 0),
      Dec(TRUE, Half \div 2, 0), Dec(TRUE, Half \div 2, 1), Dec(TRUE, 0, 1)>>

\* serial 2^32 - 1, refresh 2^31 - 1, retry a word, expire -1, minimum 2^32
SoaEdge ==
    <<Txt("ns1"), Txt("admin"), Dec(FALSE, Half - 1, Half - 1),
      Dec(FALSE, (Half \div 2) - 1, Half - 1), Txt("soon"), Dec(TRUE, 0, 1),
      Dec(FALSE, Half, 0)>>

\* SOA data of seven tokens, of six, of eight, and of none
SoaLines ==
    { SoaGood, SoaBad, SoaEdge, SubSeq(SoaGood, 1, 6), Append(SoaGood, Txt("extra")),
      <<>> }

SoaOther == <<Txt("ns9"), Txt("root"), Num(1), Num(2), Num(3), Num(4), Num(5)>>

LookupAnswerLists(type) ==
    CASE type = "MX" -> UNION {[1..n -> MxLines] : n \in 1..MaxAnswers}
      [] type = "SOA" -> {<<l>> : l \in SoaLines} \cup {<<l, SoaOther>> : l \in SoaLines}
      [] OTHER -> AnswerLists(type) \ {<<>>}

LookupResponses(type) ==
    {[kind |-> k, answers |-> <<>>] : k \in {"send_err", "decode_err", "status", "no_answer"}}
        \cup {[kind |-> "answers", answers |-> a] : a \in LookupAnswerLists(type)}

InitDns ==
    /\ dPc = 1
    /\ dRes = [NoDns EXCEPT !.domain = S_host]
    /\ qIssued = <<>>
    /\ qLast = NoResponse
    /\ qOut = Pending
    /\ IdleNormalize /\ IdleWhois /\ IdleAvail /\ IdleBulk /\ IdleExpired
    /\ IdleRdapLog /\ IdleAge

\* The next query of dns::lookup and the parsing of what it returned
DnsLookupQuery ==
    /\ dPc \in 1..Len(RecordTypes)
    /\ \E resp \in LookupResponses(RecordTypes[dPc]) :
         /\ dRes' = DnsField(dRes, RecordTypes[dPc], cloudflare_dns_lookup(resp))
         /\ qLast' = resp
    /\ qIssued' = Append(qIssued, RecordTypes[dPc])
    /\ dPc' = dPc + 1
    /\ UNCHANGED <<qOut, nVars, wVars, aVars, bVars, eVars, lVars, gVars>>

\* Ok(DnsLookupResult { .. }) at the end of dns::lookup
DnsLookupReturn ==
    /\ dPc = DnsDone
    /\ qOut = Pending
    /\ qOut' = Ok(dRes)
    /\ UNCHANGED <<dVars, qIssued, qLast, nVars, wVars, aVars, bVars, eVars, lVars, gVars>>

NextDns == DnsLookupQuery \/ DnsLookupReturn

SpecDns == InitDns /\ [][NextDns]_vars

\* ------------------------------------------------------------------------
\* domain::check_availability
\* ------------------------------------------------------------------------

NotFoundPhrases ==
    {"No matching record", "NOT FOUND", "No Data Found", "domain name not known"}

\* A closure that looks for the not-found phrases only
WhoisSaysAvailable_phraseOnly(info) ==
    \E ph \in NotFoundPhrases : Contains(info.raw_data, ph)

\* The closure mapped over whois_result
WhoisSaysAvailable(info) ==
    \/ \E ph \in NotFoundPhrases : Contains(info.raw_data, ph)
    \/ info.registrar = None

\* A closure that wants every record list empty
DnsSaysAvailable_everyList(info) ==
    /\ info.a_records = <<>> /\ info.aaaa_records = <<>> /\ info.ns_records = <<>>
    /\ info.mx_records = <<>> /\ info.txt_records = <<>> /\ info.cname_records = <<>>
    /\ info.soa_record = None

\* A closure that looks at the name servers only
DnsSaysAvailable_nsOnly(info) == info.ns_records = <<>>

\* The closure mapped over dns_result
DnsSaysAvailable(info) ==
    info.a_records = <<>> /\ info.aaaa_records = <<>> /\ info.ns_records = <<>>

\* .map(closure).unwrap_or(true)
whois_available_of(whois_result) ==
    IF whois_result.tag = "Ok" THEN WhoisSaysAvailable(whois_result.val) ELSE TRUE

dns_available_of(dns_result) ==
    IF dns_result.tag = "Ok" THEN DnsSaysAvailable(dns_result.val) ELSE TRUE

\* A verdict that needs both signals
Available_both(whois_available, dns_available) == whois_available /\ dns_available

\* let available = whois_available || dns_available
Available(whois_available, dns_available) == whois_available \/ dns_available

R_both == "Domain appears to be completely available (no WHOIS or DNS records)"

R_whois == "Domain has no WHOIS record but has DNS entries"

R_dns == "Domain has WHOIS record but no DNS entries"

R_taken == "Domain is registered and active"

\* A reason chosen with the two middle cases exchanged
Reason_swapped(available, whois_available, dns_available) ==
    IF available
    THEN IF whois_available /\ dns_available THEN R_both
         ELSE IF dns_available THEN R_whois
         ELSE R_dns
    ELSE R_taken

\* let reason = if available { ... } else { ... }
Reason(available, whois_available, dns_available) ==
    IF available
    THEN IF whois_available /\ dns_available THEN R_both
         ELSE IF whois_available THEN R_whois
         ELSE R_dns
    ELSE R_taken

DomainAvailability(domain, available, reason, wa, da) ==
    [domain |-> domain, available |-> available, reason |-> reason,
     whois_available |-> wa, dns_available |-> da]

\* A check that fails when neither RDAP nor the whois program answered
check_availability_strict(domain, whois_result, dns_result) ==
    IF whois_result.tag = "Ok" /\ ~whois_result.val.rdap_available
            /\ whois_result.val.raw_data[1] = "RDAP lookup failed:"
    THEN Err("check failed")
    ELSE Ok(DomainAvailability(domain,
                               Available(whois_available_of(whois_result), dns_available_of(dns_result)),
                               Reason(Available(whois_available_of(whois_result), dns_available_of(dns_result)),
                                      whois_available_of(whois_result), dns_available_of(dns_result)),
                               Some(whois_available_of(whois_result)),
                               Some(dns_available_of(dns_result))))

\* check_availability, from the join of the two sub-lookups on
check_availability(domain, whois_result, dns_result) ==
    LET whois_available == whois_available_of(whois_result)
        dns_available == dns_available_of(dns_result)
        available == Available(whois_available, dns_available)
    IN  Ok(DomainAvailability(domain, available,
                              Reason(available, whois_available, dns_available),
                              Some(whois_available), Some(dns_available)))

\* The raw inputs handed to check_availability: "a.com", " WWW.a.com/", "b.xyz"
AvailInputs == {S_host, S_space \o S_WWW \o S_host \o S_slash, S_other}

AvailLines == {<<"Registrar:", "R1">>, <<"NOT FOUND">>, <<BadByte>>}

\* What the whois program writes in the runs of check_availability
AvailStdouts ==
    {JoinLines(ls) : ls \in UNION {[1..n -> AvailLines] : n \in 0..MaxLines}}

InitAvail ==
    /\ aIn \in AvailInputs
    /\ aPc = "start"
    /\ aResult = Pending
    /\ IdleNormalize /\ IdleWhois /\ IdleDns /\ IdleBulk /\ IdleExpired /\ IdleQueries
    /\ IdleRdapLog /\ IdleAge

\* check_availability up to tokio::join!: both sub-lookups are started on the
\* normalized domain
AvailStart ==
    /\ aPc = "start"
    /\ wDomain' = normalize_domain(aIn)
    /\ wPc' = "rdap"
    /\ dPc' = 1
    /\ dRes' = [NoDns EXCEPT !.domain = normalize_domain(aIn)]
    /\ aPc' = "joining"
    /\ UNCHANGED <<aIn, aResult, wRdap, wErr, wCmd, wCalls, wResult, nVars, bVars, eVars, qVars, lVars, gVars>>

AvailWhoisStatic ==
    aPc = "joining" /\ (\E resp \in QueryResponses : RdapStaticQuery(resp)) /\ UNCHANGED <<nVars, dVars, aVars, bVars, eVars, qVars, lVars, gVars>>

AvailWhoisDiscovery ==
    aPc = "joining" /\ (\E resp \in DiscoveryResponses : RdapBootstrapDiscovery(resp)) /\ UNCHANGED <<nVars, dVars, aVars, bVars, eVars, qVars, lVars, gVars>>

AvailWhoisBootQuery ==
    aPc = "joining" /\ (\E resp \in QueryResponses : RdapBootstrapQuery(resp)) /\ UNCHANGED <<nVars, dVars, aVars, bVars, eVars, qVars, lVars, gVars>>

AvailWhoisCommandLine ==
    aPc = "joining" /\ CommandLineWhois(AvailStdouts)
        /\ UNCHANGED <<nVars, dVars, aVars, bVars, eVars, qVars, lVars, gVars>>

\* A DNS lookup that starts only when the WHOIS lookup has returned
AvailDnsQuery_afterWhois ==
    aPc = "joining" /\ wPc = "done" /\ DnsQuery /\ UNCHANGED <<nVars, wVars, aVars, bVars, eVars, qVars, lVars, gVars>>

AvailDnsQuery ==
    aPc = "joining" /\ DnsQuery /\ UNCHANGED <<nVars, wVars, aVars, bVars, eVars, qVars, lVars, gVars>>

\* check_availability after the join: both sub-lookups have returned
AvailFinish ==
    /\ aPc = "joining"
    /\ wPc = "done"
    /\ dPc = DnsDone
    /\ aResult' = check_availability(wDomain, wResult, Ok(dRes))
    /\ aPc' = "done"
    /\ UNCHANGED <<aIn, nVars, wVars, dVars, bVars, eVars, qVars, lVars, gVars>>

NextAvail ==
    \/ AvailStart
    \/ AvailWhoisStatic
    \/ AvailWhoisDiscovery
    \/ AvailWhoisBootQuery
    \/ AvailWhoisCommandLine
    \/ AvailDnsQuery
    \/ AvailFinish

SpecAvail == InitAvail /\ [][NextAvail]_vars

\* ------------------------------------------------------------------------
\* domain::bulk_check: one check_availability future per input, driven
\* concurrently by join_all, then the counting loop over the joined results
\* ------------------------------------------------------------------------

\* The longest list handed to bulk_check
MaxDomains == 3

\* The raw inputs of bulk_check: "a.com" and " WWW.a.com/" name one domain
BulkInputs == {S_host, S_space \o S_WWW \o S_host \o S_slash, S_other}

\* What the two sub-lookups of one check may return
BulkWhoisResults(domain) ==
    { Ok(WhoisFromRdap(domain, DocFull)),
      UnknownResult(domain, RdapError(domain)) }

BulkDnsResults(domain) ==
    { Ok([NoDns EXCEPT !.domain = domain]),
      Ok([NoDns EXCEPT !.domain = domain, !.a_records = <<"192.0.2.1">>]) }

\* A join that hands the outputs back in the order of completion
join_all_unordered(outputs, order) == [k \in 1..Len(order) |-> outputs[order[k]]]

\* futures::future::join_all: the outputs in the order of the futures,
\* whatever the order in which they completed
join_all(outputs, order) == [i \in 1..Len(outputs) |-> outputs[i]]

NoCount == [available |-> 0, taken |-> 0, errors |-> 0, domain_results |-> <<>>]

\* A loop body that counts a verdict as available by its WHOIS signal
CountOne_byWhois(acc, domain, result) ==
    IF result.tag = "Ok"
    THEN [acc EXCEPT
            !.available = IF result.val.whois_available = Some(TRUE) THEN @ + 1 ELSE @,
            !.taken = IF result.val.available THEN @ ELSE @ + 1,
            !.domain_results = Append(@, result.val)]
    ELSE [acc EXCEPT
            !.errors = @ + 1,
            !.domain_results =
                Append(@, DomainAvailability(domain, FALSE, "Error checking domain",
                                             None, None))]

\* The body of the loop over domains.iter().zip(results.iter())
CountOne(acc, domain, result) ==
    IF result.tag = "Ok"
    THEN [acc EXCEPT
            !.available = IF result.val.available THEN @ + 1 ELSE @,
            !.taken = IF result.val.available THEN @ ELSE @ + 1,
            !.domain_results = Append(@, result.val)]
    ELSE [acc EXCEPT
            !.errors = @ + 1,
            !.domain_results =
                Append(@, DomainAvailability(domain, FALSE, "Error checking domain",
                                             None, None))]

MinOf(a, b) == IF a <= b THEN a ELSE b

\* The loop: zip stops at the shorter of the two sequences
RECURSIVE CountLoop(_, _, _, _)
CountLoop(acc, domains, results, i) ==
    IF i > MinOf(Len(domains), Len(results)) THEN acc
    ELSE CountLoop(CountOne(acc, domains[i], results[i]), domains, results, i + 1)

\* A bulk_check that gives up on the first failed check
BulkCheckResult_aborts(domains, results) ==
    IF \E i \in 1..Len(results) : results[i].tag = "Err"
    THEN Err("check failed")
    ELSE LET acc == CountLoop(NoCount, domains, results, 1)
         IN  Ok([domains |-> acc.domain_results,
                 summary |-> [total |-> Len(domains), available |-> acc.available,
                              taken |-> acc.taken, errors |-> acc.errors]])

\* bulk_check from the join on: the loop and the BulkCheckResult
BulkCheckResult(domains, results) ==
    LET acc == CountLoop(NoCount, domains, results, 1)
    IN  Ok([domains |-> acc.domain_results,
            summary |-> [total |-> Len(domains), available |-> acc.available,
                         taken |-> acc.taken, errors |-> acc.errors]])

InitBulk ==
    /\ bDomains \in UNION {[1..n -> BulkInputs] : n \in 0..MaxDomains}
    /\ bPc = "start"
    /\ bTask = <<>>
    /\ bOrder = <<>>
    /\ bResults = <<>>
    /\ bOut = Pending
    /\ IdleNormalize /\ IdleWhois /\ IdleDns /\ IdleAvail /\ IdleExpired /\ IdleQueries
    /\ IdleRdapLog /\ IdleAge

\* bulk_check up to join_all(futures): one pending future per input
BulkStart ==
    /\ bPc = "start"
    /\ bTask' = [i \in 1..Len(bDomains) |-> Pending]
    /\ bPc' = "joining"
    /\ UNCHANGED <<bDomains, bOrder, bResults, bOut, nVars, wVars, dVars, aVars, eVars, qVars, lVars, gVars>>

\* One of the futures completes: check_availability on its input, with
\* whatever its own two sub-lookups returned
BulkTaskCompletes ==
    /\ bPc = "joining"
    /\ \E i \in 1..Len(bDomains) :
         /\ bTask[i].tag = "Pending"
         /\ LET domain == normalize_domain(bDomains[i])
            IN  \E w \in BulkWhoisResults(domain), d \in BulkDnsResults(domain) :
                  bTask' = [bTask EXCEPT ![i] = check_availability(domain, w, d)]
         /\ bOrder' = Append(bOrder, i)
    /\ UNCHANGED <<bDomains, bPc, bResults, bOut, nVars, wVars, dVars, aVars, eVars, qVars, lVars, gVars>>

\* Every future has completed: join_all returns and bulk_check runs to its end
BulkCollect ==
    /\ bPc = "joining"
    /\ \A i \in 1..Len(bDomains) : bTask[i].tag # "Pending"
    /\ bResults' = join_all(bTask, bOrder)
    /\ bOut' = BulkCheckResult(bDomains, join_all(bTask, bOrder))
    /\ bPc' = "done"
    /\ UNCHANGED <<bDomains, bTask, bOrder, nVars, wVars, dVars, aVars, eVars, qVars, lVars, gVars>>

NextBulk == BulkStart \/ BulkTaskCompletes \/ BulkCollect

SpecBulk == InitBulk /\ [][NextBulk]_vars

\* One of the futures completes with Err: the value the Err arm of the loop
\* in bulk_check is written for (Result<DomainAvailability> admits it)
BulkTaskFails ==
    /\ bPc = "joining"
    /\ \E i \in 1..Len(bDomains) :
         /\ bTask[i].tag = "Pending"
         /\ bTask' = [bTask EXCEPT ![i] = Err("check failed")]
         /\ bOrder' = Append(bOrder, i)
    /\ UNCHANGED <<bDomains, bPc, bResults, bOut, nVars, wVars, dVars, aVars, eVars, qVars, lVars, gVars>>

NextBulkFallible == BulkStart \/ BulkTaskCompletes \/ BulkTaskFails \/ BulkCollect

\* bulk_check over checks that may each fail
SpecBulkFallible == InitBulk /\ [][NextBulkFallible]_vars

\* ------------------------------------------------------------------------
\* expired.rs: the feeds of the four sources and the source adapters
\* ------------------------------------------------------------------------

\* The result cap, of the aggregator and of every adapter
Cap == 10

\* Number of distinct domain names the feeds draw from
PoolSize == 12

\* Number of names a short and a long feed list
ShortFeed == 3

LongFeed == 11

Letters == <<"a", "b", "c", "d", "e", "f", "g", "h", "i", "j", "k", "l", "m", "n">>

S_dot == <<".">>
S_COM == <<"C", "O", "M">>
S_hdr == <<"h", ".", "c", "o", "m">>
S_hash == <<"#">>
S_quote == <<"\"">>
S_comma == <<",">>

\* The names of the pool: labels in "s", "S" or "t", TLDs com, net or COM
Name(i) ==
    LET k == ((i - 1) % PoolSize) + 1
        first == IF k % 6 = 3 THEN "S" ELSE IF k % 6 = 0 THEN "t" ELSE "s"
        tld == IF k % 4 = 0 THEN S_net ELSE IF k % 7 = 0 THEN S_COM ELSE S_com
    IN  <<first, Letters[((k - 1) % Len(Letters)) + 1]>> \o S_dot \o tld

\* A feed lists `len` consecutive names of the pool from `lo` on, each of
\* them twice in a row when `dup`
Shape(lo, len, dup) == [lo |-> lo, len |-> len, dup |-> dup]

NoShape == Shape(1, 0, FALSE)

FeedShapes ==
    { NoShape, Shape(1, ShortFeed, FALSE), Shape(5, ShortFeed, TRUE),
      Shape(1, LongFeed, TRUE), Shape(5, LongFeed, FALSE) }

Indices(shape) ==
    IF shape.dup
    THEN [j \in 1..(2 * shape.len) |-> shape.lo + ((j - 1) \div 2)]
    ELSE [j \in 1..shape.len |-> shape.lo + (j - 1)]

Pad(s) == S_space \o s \o S_space

Quoted(s) == S_quote \o s \o S_quote

RECURSIVE JoinComma(_)
JoinComma(fields) ==
    IF Len(fields) <= 1 THEN Flatten(fields)
    ELSE Head(fields) \o S_comma \o JoinComma(Tail(fields))

\* One element of the "domains" array of the DomainsDB JSON
DomainsDBDomain(i) ==
    [domain |-> Some(Name(i)),
     create_date |-> IF i % 2 = 1 THEN Some("2001-01-01") ELSE None,
     update_date |-> IF i % 3 = 0 THEN Some("2020-02-02") ELSE None,
     isDead |-> IF i % 3 = 0 THEN Some("True")
                ELSE IF i % 3 = 1 THEN Some("False") ELSE None,
     A |-> IF i % 2 = 0 THEN Some(<<"192.0.2.1">>) ELSE None,
     NS |-> IF i % 5 = 0 THEN Some(<<"ns1">>) ELSE None]

\* The array of a DomainsDB answer: an element without a name, one whose
\* name has no dot, then the elements of the shape
DomainsDBBody(shape) ==
    << [DomainsDBDomain(1) EXCEPT !.domain = None],
       [DomainsDBDomain(2) EXCEPT !.domain = Some(<<"x">>)] >>
    \o [j \in 1..Len(Indices(shape)) |-> DomainsDBDomain(Indices(shape)[j])]

\* The lines of the Dynadot CSV: one to five columns, some of them padded
DynadotLine(i) ==
    LET cols == << IF i % 2 = 0 THEN Pad(Name(i)) ELSE Name(i),
                   <<"1", "d">>, <<"x">>, <<"9">>, Pad(<<"5">>) >>
    IN  JoinComma(SubSeq(cols, 1, (i % 5) + 1))

\* Header, a blank line, a line whose column 0 has no dot, then the shape
DynadotText(shape) ==
    << JoinComma(<<S_hdr, <<"e">>>>), S_space, JoinComma(<<<<"x">>, <<"e">>>>) >>
    \o [j \in 1..Len(Indices(shape)) |-> DynadotLine(Indices(shape)[j])]

\* The lines of a NameJet inventory: bare, padded, or quoted CSV
NameJetLine(i) ==
    IF i % 3 = 0 THEN JoinComma(<<Quoted(Name(i)), <<"x">>>>)
    ELSE IF i % 3 = 1 THEN Name(i)
    ELSE Pad(Name(i))

\* A comment, an empty line, an indented comment, then the shape
NameJetText(shape) ==
    << S_hash \o S_hdr, <<>>, S_space \o S_hash \o S_hdr >>
    \o [j \in 1..Len(Indices(shape)) |-> NameJetLine(Indices(shape)[j])]

\* The lines of the SnapNames CSV: quoted columns
SnapNamesLine(i) ==
    IF i % 2 = 0 THEN JoinComma(<<Quoted(Name(i)), Quoted(<<"x">>)>>)
    ELSE Pad(Quoted(Name(i)))

\* Header, an empty line, then the shape
SnapNamesText(shape) ==
    << S_hdr, <<>> >>
    \o [j \in 1..Len(Indices(shape)) |-> SnapNamesLine(Indices(shape)[j])]

\* What a request to a feed may come back with: no connection, a
\* non-success status, a body that cannot be read or decoded, or a feed
FailureKinds == {"send_err", "status", "body_err"}

Response(kind, shape) == [kind |-> kind, shape |-> shape]

FeedResponses ==
    {Response(k, NoShape) : k \in FailureKinds}
        \cup {Response("ok", sh) : sh \in FeedShapes}

\* DomainsDB may also answer with a JSON object that has no "domains"
DomainsDBResponses == FeedResponses \cup {Response("no_list", NoShape)}

\* str::split(','), by characters
RECURSIVE SplitAcc(_, _, _, _)
SplitAcc(s, c, cur, acc) ==
    IF s = <<>> THEN Append(acc, cur)
    ELSE IF Head(s) = c THEN SplitAcc(Tail(s), c, <<>>, Append(acc, cur))
    ELSE SplitAcc(Tail(s), c, Append(cur, Head(s)), acc)

split(s, c) == SplitAcc(s, c, <<>>, <<>>)

\* str::contains for a substring
contains(s, sub) ==
    \E i \in 1..(Len(s) - Len(sub) + 1) : SubSeq(s, i, i + Len(sub) - 1) = sub

\* str::trim_matches('"')
trim_matches_quote(s) == trim_end_matches(trim_start_matches(s, S_quote), S_quote)

\* The keyword filter of every adapter
MatchesKeyword(domain_name, keyword) ==
    keyword = <<>> \/ contains(to_lowercase(domain_name), to_lowercase(keyword))

\* A TLD filter that compares without regard to case
MatchesTld_caseless(domain_name, tld) ==
    tld = <<>> \/ EndsWith(to_lowercase(domain_name), to_lowercase(S_dot \o tld))

\* The TLD filter of every adapter: ends_with(&format!(".{}", tld))
MatchesTld(domain_name, tld) ==
    tld = <<>> \/ EndsWith(domain_name, S_dot \o tld)

ExpiredDomain(domain, status, source, created, updated, end, appr, price, dns) ==
    [domain |-> domain, status |-> status, source |-> source, created |-> created,
     updated |-> updated, end_time |-> end, appraisal |-> appr,
     starting_price |-> price, has_dns |-> dns]

\* results.push(..) for each candidate, leaving the loop once the push makes
\* results.len() >= 10
RECURSIVE PushUntilCap(_, _)
PushUntilCap(cands, results) ==
    IF cands = <<>> THEN results
    ELSE LET pushed == results \o Head(cands)
         IN  IF Head(cands) # None /\ Len(pushed) >= Cap THEN pushed
             ELSE PushUntilCap(Tail(cands), pushed)

\* The body of the loop of search_domainsdb for one element
DomainsDBCandidate(info, keyword, tld) ==
    IF /\ IsSome(info.domain)
       /\ contains(Unwrap(info.domain), S_dot)
       /\ MatchesKeyword(Unwrap(info.domain), keyword)
       /\ MatchesTld(Unwrap(info.domain), tld)
    THEN Some(ExpiredDomain(Unwrap(info.domain),
                            IF info.isDead = Some("True") THEN "expired" ELSE "unknown",
                            "DomainsDB", info.create_date, info.update_date,
                            None, None, None,
                            Some(IsSome(info.A) \/ IsSome(info.NS))))
    ELSE None

search_domainsdb(resp, keyword, tld) ==
    CASE resp.kind \in FailureKinds -> Err(resp.kind)
      [] resp.kind = "no_list" -> Ok(<<>>)
      [] OTHER ->
            LET body == DomainsDBBody(resp.shape)
            IN  Ok(PushUntilCap(
                     [j \in 1..Len(body) |-> DomainsDBCandidate(body[j], keyword, tld)],
                     <<>>))

\* The body of the loop of search_dynadot for one line
DynadotCandidate(line, keyword, tld) ==
    LET parts == [j \in 1..Len(split(line, ",")) |-> trim(split(line, ",")[j])]
    IN  IF /\ trim(line) # <<>>
           /\ Len(parts) >= 2
           /\ contains(trim(parts[1]), S_dot)
           /\ MatchesKeyword(trim(parts[1]), keyword)
           /\ MatchesTld(trim(parts[1]), tld)
        THEN Some(ExpiredDomain(trim(parts[1]), "pending delete", "Dynadot", None, None,
                                IF Len(parts) > 1 THEN Some(parts[2]) ELSE None,
                                IF Len(parts) > 3 THEN Some(parts[4]) ELSE None,
                                IF Len(parts) > 4 THEN Some(parts[5]) ELSE None,
                                None))
        ELSE None

\* text.lines().skip(1)
skip1(lines) == IF lines = <<>> THEN <<>> ELSE Tail(lines)

search_dynadot(resp, keyword, tld) ==
    IF resp.kind \in FailureKinds THEN Err(resp.kind)
    ELSE LET lines == skip1(DynadotText(resp.shape))
         IN  Ok(PushUntilCap(
                  [j \in 1..Len(lines) |-> DynadotCandidate(lines[j], keyword, tld)],
                  <<>>))

\* The body of the loop of search_namejet for one line
NameJetCandidate(line, keyword, tld) ==
    LET domain_name == trim_matches_quote(trim(split(line, ",")[1]))
    IN  IF /\ trim(line) # <<>>
           /\ ~StartsWith(line, S_hash)
           /\ contains(domain_name, S_dot)
           /\ ~StartsWith(domain_name, S_hash)
           /\ MatchesKeyword(domain_name, keyword)
           /\ MatchesTld(domain_name, tld)
        THEN Some(ExpiredDomain(domain_name, "auction/pending", "NameJet",
                                None, None, None, None, None, None))
        ELSE None

\* A turn that leaves the loop as soon as a file was read, matching or not
NameJetUrl_stopsOnRead(resp, keyword, tld, results) ==
    CASE resp.kind \in {"send_err", "status"} -> Pending
      [] resp.kind = "body_err" -> Err(resp.kind)
      [] OTHER ->
            LET lines == NameJetText(resp.shape)
            IN  Ok(PushUntilCap(
                     [j \in 1..Len(lines) |-> NameJetCandidate(lines[j], keyword, tld)],
                     results))

\* One turn of the loop over the two URLs of search_namejet: Pending stands
\* for going on to the next URL
NameJetUrl(resp, keyword, tld, results) ==
    CASE resp.kind \in {"send_err", "status"} -> Pending
      [] resp.kind = "body_err" -> Err(resp.kind)
      [] OTHER ->
            LET lines == NameJetText(resp.shape)
                pushed == PushUntilCap(
                            [j \in 1..Len(lines) |->
                                NameJetCandidate(lines[j], keyword, tld)],
                            results)
            IN  IF pushed # <<>> THEN Ok(pushed) ELSE Pending

\* The body of the loop of search_snapnames for one line
SnapNamesCandidate(line, keyword, tld) ==
    LET parts == [j \in 1..Len(split(line, ",")) |->
                    trim_matches_quote(trim(split(line, ",")[j]))]
    IN  IF /\ trim(line) # <<>>
           /\ parts # <<>>
           /\ contains(parts[1], S_dot)
           /\ MatchesKeyword(parts[1], keyword)
           /\ MatchesTld(parts[1], tld)
        THEN Some(ExpiredDomain(parts[1], "pending delete", "SnapNames",
                                None, None, None, None, None, None))
        ELSE None

search_snapnames(resp, keyword, tld) ==
    IF resp.kind \in FailureKinds THEN Err(resp.kind)
    ELSE LET lines == skip1(SnapNamesText(resp.shape))
         IN  Ok(PushUntilCap(
                  [j \in 1..Len(lines) |-> SnapNamesCandidate(lines[j], keyword, tld)],
                  <<>>))

\* ------------------------------------------------------------------------
\* expired.rs search_expired_domains: the four sources in turn
\* ------------------------------------------------------------------------

\* A merge that never stops at the cap
RECURSIVE Merge_uncapped(_, _, _)
Merge_uncapped(domains, seen, results) ==
    IF results = <<>> THEN [domains |-> domains, seen |-> seen, full |-> FALSE]
    ELSE IF Head(results).domain \in seen THEN Merge_uncapped(domains, seen, Tail(results))
    ELSE Merge_uncapped(Append(domains, Head(results)),
                        seen \cup {Head(results).domain}, Tail(results))

\* A merge that does not look at seen_domains
RECURSIVE Merge_unseen(_, _, _)
Merge_unseen(domains, seen, results) ==
    IF results = <<>> THEN [domains |-> domains, seen |-> seen, full |-> FALSE]
    ELSE LET pushed == Append(domains, Head(results))
             inserted == seen \cup {Head(results).domain}
         IN  IF Len(pushed) >= Cap
             THEN [domains |-> pushed, seen |-> inserted, full |-> TRUE]
             ELSE Merge_unseen(pushed, inserted, Tail(results))

\* A merge that puts each new domain in front of the list
RECURSIVE Merge_prepends(_, _, _)
Merge_prepends(domains, seen, results) ==
    IF results = <<>> THEN [domains |-> domains, seen |-> seen, full |-> FALSE]
    ELSE IF Head(results).domain \in seen THEN Merge_prepends(domains, seen, Tail(results))
    ELSE LET pushed == <<Head(results)>> \o domains
             inserted == seen \cup {Head(results).domain}
         IN  IF Len(pushed) >= Cap
             THEN [domains |-> pushed, seen |-> inserted, full |-> TRUE]
             ELSE Merge_prepends(pushed, inserted, Tail(results))

\* The loop over one source's results: unseen domains are pushed until
\* domains.len() >= 10, which returns from search_expired_domains
RECURSIVE Merge(_, _, _)
Merge(domains, seen, results) ==
    IF results = <<>> THEN [domains |-> domains, seen |-> seen, full |-> FALSE]
    ELSE IF Head(results).domain \in seen THEN Merge(domains, seen, Tail(results))
    ELSE LET pushed == Append(domains, Head(results))
             inserted == seen \cup {Head(results).domain}
         IN  IF Len(pushed) >= Cap
             THEN [domains |-> pushed, seen |-> inserted, full |-> TRUE]
             ELSE Merge(pushed, inserted, Tail(results))

\* The request each source's turn starts with
SourcePc == <<"domainsdb", "dynadot", "namejet1", "snapnames">>

Keywords == {<<>>, <<"S">>, <<"t">>}

Tlds == {<<>>, S_com}

InitExpired ==
    /\ eIn \in {[keyword |-> k, tld |-> t] : k \in Keywords, t \in Tlds}
    /\ ePc = "build"
    /\ eDomains = <<>>
    /\ eSeen = {}
    /\ eLog = <<>>
    /\ eRet = NoReturns
    /\ eOut = Pending
    /\ IdleNormalize /\ IdleWhois /\ IdleDns /\ IdleAvail /\ IdleBulk /\ IdleQueries
    /\ IdleRdapLog /\ IdleAge

\* Client::builder()...build()?
ExpiredBuildClient ==
    /\ ePc = "build"
    /\ \E built \in BOOLEAN :
         IF built THEN ePc' = SourcePc[1] /\ eOut' = eOut
         ELSE ePc' = "done" /\ eOut' = Err("builder error")
    /\ UNCHANGED <<eIn, eDomains, eSeen, eLog, eRet>>
    /\ UNCHANGED <<nVars, wVars, dVars, aVars, bVars, qVars, lVars, gVars>>

\* An aggregator that goes on to the next source whatever it has accumulated
AfterSource_unguarded(k, ret) ==
    LET m == IF ret.tag = "Ok" THEN Merge(eDomains, eSeen, ret.val)
             ELSE [domains |-> eDomains, seen |-> eSeen, full |-> FALSE]
    IN  /\ eRet' = [eRet EXCEPT ![k] = ret]
        /\ eDomains' = m.domains
        /\ eSeen' = m.seen
        /\ IF k < Len(SourcePc)
           THEN ePc' = SourcePc[k + 1] /\ eOut' = eOut
           ELSE ePc' = "done" /\ eOut' = Ok(m.domains)

\* An aggregator that hands a source's error on with `?`
AfterSource_propagates(k, ret) ==
    LET m == IF ret.tag = "Ok" THEN Merge(eDomains, eSeen, ret.val)
             ELSE [domains |-> eDomains, seen |-> eSeen, full |-> FALSE]
    IN  /\ eRet' = [eRet EXCEPT ![k] = ret]
        /\ eDomains' = m.domains
        /\ eSeen' = m.seen
        /\ IF ret.tag = "Err" THEN ePc' = "done" /\ eOut' = ret
           ELSE IF ~m.full /\ k < Len(SourcePc) /\ Len(m.domains) < Cap
           THEN ePc' = SourcePc[k + 1] /\ eOut' = eOut
           ELSE ePc' = "done" /\ eOut' = Ok(m.domains)

\* Source k has returned `ret`: its results are merged when it is Ok, and
\* the run goes on to the next source that its guard lets in
AfterSource(k, ret) ==
    LET m == IF ret.tag = "Ok" THEN Merge(eDomains, eSeen, ret.val)
             ELSE [domains |-> eDomains, seen |-> eSeen, full |-> FALSE]
    IN  /\ eRet' = [eRet EXCEPT ![k] = ret]
        /\ eDomains' = m.domains
        /\ eSeen' = m.seen
        /\ IF ~m.full /\ k < Len(SourcePc) /\ Len(m.domains) < Cap
           THEN ePc' = SourcePc[k + 1] /\ eOut' = eOut
           ELSE ePc' = "done" /\ eOut' = Ok(m.domains)

Logged(req, resp) == Append(eLog, [req |-> req, resp |-> resp])

SearchDomainsDB ==
    /\ ePc = "domainsdb"
    /\ \E resp \in DomainsDBResponses :
         /\ eLog' = Logged("domainsdb", resp)
         /\ AfterSource(1, search_domainsdb(resp, eIn.keyword, eIn.tld))
    /\ UNCHANGED <<eIn, nVars, wVars, dVars, aVars, bVars, qVars, lVars, gVars>>

SearchDynadot ==
    /\ ePc = "dynadot"
    /\ \E resp \in FeedResponses :
         /\ eLog' = Logged("dynadot", resp)
         /\ AfterSource(2, search_dynadot(resp, eIn.keyword, eIn.tld))
    /\ UNCHANGED <<eIn, nVars, wVars, dVars, aVars, bVars, qVars, lVars, gVars>>

\* search_namejet, the turn of the first URL
SearchNameJetFirst ==
    /\ ePc = "namejet1"
    /\ \E resp \in FeedResponses :
         /\ eLog' = Logged("namejet1", resp)
         /\ LET r == NameJetUrl(resp, eIn.keyword, eIn.tld, <<>>)
            IN  IF r.tag = "Pending"
                THEN ePc' = "namejet2" /\ UNCHANGED <<eDomains, eSeen, eRet, eOut>>
                ELSE AfterSource(3, r)
    /\ UNCHANGED <<eIn, nVars, wVars, dVars, aVars, bVars, qVars, lVars, gVars>>

\* search_namejet, the turn of the second URL; results is still empty, the
\* loop having been left otherwise
SearchNameJetSecond ==
    /\ ePc = "namejet2"
    /\ \E resp \in FeedResponses :
         /\ eLog' = Logged("namejet2", resp)
         /\ LET r == NameJetUrl(resp, eIn.keyword, eIn.tld, <<>>)
            IN  AfterSource(3, IF r.tag = "Pending" THEN Ok(<<>>) ELSE r)
    /\ UNCHANGED <<eIn, nVars, wVars, dVars, aVars, bVars, qVars, lVars, gVars>>

SearchSnapNames ==
    /\ ePc = "snapnames"
    /\ \E resp \in FeedResponses :
         /\ eLog' = Logged("snapnames", resp)
         /\ AfterSource(4, search_snapnames(resp, eIn.keyword, eIn.tld))
    /\ UNCHANGED <<eIn, nVars, wVars, dVars, aVars, bVars, qVars, lVars, gVars>>

NextExpired ==
    \/ ExpiredBuildClient
    \/ SearchDomainsDB
    \/ SearchDynadot
    \/ SearchNameJetFirst
    \/ SearchNameJetSecond
    \/ SearchSnapNames

SpecExpired == InitExpired /\ [][NextExpired]_vars

\* ------------------------------------------------------------------------
\* check_age: the age of a domain from the creation date of its WHOIS record
\* ------------------------------------------------------------------------

Digits == <<"0", "1", "2", "3", "4", "5", "6", "7", "8", "9">>

IsDigit(c) == \E i \in 1..10 : Digits[i] = c

DigitVal(c) == (CHOOSE i \in 1..10 : Digits[i] = c) - 1

\* The number of leading digits of s, at most max
RECURSIVE LeadingDigits(_, _)
LeadingDigits(s, max) ==
    IF max = 0 \/ s = <<>> \/ ~IsDigit(Head(s)) THEN 0
    ELSE 1 + LeadingDigits(Tail(s), max - 1)

RECURSIVE DecimalOf(_)
DecimalOf(ds) ==
    IF ds = <<>> THEN 0
    ELSE DecimalOf(SubSeq(ds, 1, Len(ds) - 1)) * 10 + DigitVal(ds[Len(ds)])

\* The items of a chrono format string: a numeric field of at most w digits,
\* a literal character, whitespace, an optional fraction of a second (%.f),
\* an abbreviated month name (%b)
Numeric(f, w) == [k |-> "num", f |-> f, w |-> w, c |-> ""]

Literal(c) == [k |-> "lit", f |-> "", w |-> 0, c |-> c]

Space == [k |-> "space", f |-> "", w |-> 0, c |-> ""]

Fraction == [k |-> "frac", f |-> "", w |-> 0, c |-> ""]

MonthName == [k |-> "mon", f |-> "", w |-> 0, c |-> ""]

YmdItems == <<Numeric("year", 4), Literal("-"), Numeric("month", 2), Literal("-"), Numeric("day", 2)>>

HmsItems == <<Numeric("hour", 2), Literal(":"), Numeric("minute", 2), Literal(":"), Numeric("second", 2)>>

\* parse_date_and_calculate_age, datetime_formats:
\* "%Y-%m-%dT%H:%M:%S%.fZ" and "%Y-%m-%d %H:%M:%S"
datetime_formats ==
    << YmdItems \o <<Literal("T")>> \o HmsItems \o <<Fraction, Literal("Z")>>,
       YmdItems \o <<Space>> \o HmsItems >>

\* parse_date_and_calculate_age, date_formats: "%Y-%m-%d" and "%d-%b-%Y"
date_formats ==
    << YmdItems,
       <<Numeric("day", 2), Literal("-"), MonthName, Literal("-"), Numeric("year", 4)>> >>

MonthAbbr ==
    << <<"j", "a", "n">>, <<"f", "e", "b">>, <<"m", "a", "r">>, <<"a", "p", "r">>,
       <<"m", "a", "y">>, <<"j", "u", "n">>, <<"j", "u", "l">>, <<"a", "u", "g">>,
       <<"s", "e", "p">>, <<"o", "c", "t">>, <<"n", "o", "v">>, <<"d", "e", "c">> >>

Unset ==
    [year |-> -1, month |-> -1, day |-> -1, hour |-> -1, minute |-> -1, second |-> -1,
     milli |-> 0]

\* The thousandths of a second of the digits after the '.'
Millis(ds) == DecimalOf(SubSeq(ds \o <<"0", "0", "0">>, 1, 3))

\* chrono's parse of s against the items: the fields read, None when an item
\* does not match or input is left over. A numeric item skips whitespace and
\* takes one to w digits (the inputs carry no sign before the year).
RECURSIVE Scan(_, _, _)
Scan(items, s, fields) ==
    IF items = <<>> THEN (IF s = <<>> THEN Some(fields) ELSE None)
    ELSE LET it == Head(items)
             rest == Tail(items)
         IN  CASE it.k = "lit" ->
                    IF s # <<>> /\ Head(s) = it.c THEN Scan(rest, Tail(s), fields) ELSE None
               [] it.k = "space" -> Scan(rest, trim_start(s), fields)
               [] it.k = "num" ->
                    LET t == trim_start(s)
                        n == LeadingDigits(t, it.w)
                    IN  IF n = 0 THEN None
                        ELSE Scan(rest, DropPrefix(t, n),
                                  [fields EXCEPT ![it.f] = DecimalOf(SubSeq(t, 1, n))])
               [] it.k = "frac" ->
                    IF s # <<>> /\ Head(s) = "."
                    THEN LET n == LeadingDigits(Tail(s), Len(s))
                         IN  IF n = 0 THEN None
                             ELSE Scan(rest, DropPrefix(s, n + 1),
                                       [fields EXCEPT !.milli = Millis(SubSeq(s, 2, n + 1))])
                    ELSE Scan(rest, s, fields)
               [] it.k = "mon" ->
                    IF Len(s) >= 3 /\ \E m \in 1..12 : to_lowercase(SubSeq(s, 1, 3)) = MonthAbbr[m]
                    THEN Scan(rest, DropPrefix(s, 3),
                              [fields EXCEPT !.month =
                                  CHOOSE m \in 1..12 : to_lowercase(SubSeq(s, 1, 3)) = MonthAbbr[m]])
                    ELSE None

IsLeap(y) == y % 4 = 0 /\ (y % 100 # 0 \/ y % 400 = 0)

DaysInMonth(y, m) ==
    IF m = 2 THEN (IF IsLeap(y) THEN 29 ELSE 28)
    ELSE IF m \in {4, 6, 9, 11} THEN 30 ELSE 31

\* Days from 1970-01-01 to the civil date (proleptic Gregorian, year >= 0)
DaysFromCivil(y, m, d) ==
    LET yy == IF m <= 2 THEN y - 1 ELSE y
        era == yy \div 400
        yoe == yy - era * 400
        doy == (153 * (IF m > 2 THEN m - 3 ELSE m + 9) + 2) \div 5 + d - 1
        doe == yoe * 365 + yoe \div 4 - yoe \div 100 + doy
    IN  era * 146097 + doe - 719468

MsPerDay == 24 * 60 * 60 * 1000

\* A point of time: whole days since 1970-01-01 and milliseconds of the day
Instant(y, m, d, hh, mm, ss, ms) ==
    [days |-> DaysFromCivil(y, m, d), ms |-> ((hh * 60 + mm) * 60 + ss) * 1000 + ms]

ValidDate(f) == f.month \in 1..12 /\ f.day >= 1 /\ f.day <= DaysInMonth(f.year, f.month)

ValidTime(f) == f.hour \in 0..23 /\ f.minute \in 0..59 /\ f.second \in 0..60

\* NaiveDateTime::parse_from_str(date_str, format)
NaiveDateTime_parse_from_str(s, format) ==
    LET r == Scan(format, s, Unset)
    IN  IF r = None \/ ~ValidDate(Unwrap(r)) \/ ~ValidTime(Unwrap(r)) THEN None
        ELSE LET f == Unwrap(r)
             IN  Some(Instant(f.year, f.month, f.day, f.hour, f.minute, f.second, f.milli))

\* NaiveDate::parse_from_str(date_str, format) and .and_hms_opt(0, 0, 0)
NaiveDate_parse_from_str(s, format) ==
    LET r == Scan(format, s, Unset)
    IN  IF r = None \/ ~ValidDate(Unwrap(r)) THEN None
        ELSE Some(Instant(Unwrap(r).year, Unwrap(r).month, Unwrap(r).day, 0, 0, 0, 0))

\* A parser that tries the date formats only
ParsedDate_datesOnly(s) ==
    LET c == NaiveDate_parse_from_str(s, date_formats[1])
        d == NaiveDate_parse_from_str(s, date_formats[2])
    IN  IF c # None THEN c ELSE d

\* parse_date_and_calculate_age, the two loops: the first format that parses
ParsedDate(s) ==
    LET a == NaiveDateTime_parse_from_str(s, datetime_formats[1])
        b == NaiveDateTime_parse_from_str(s, datetime_formats[2])
        c == NaiveDate_parse_from_str(s, date_formats[1])
        d == NaiveDate_parse_from_str(s, date_formats[2])
    IN  IF a # None THEN a
        ELSE IF b # None THEN b
        ELSE IF c # None THEN c
        ELSE d

\* now.signed_duration_since(date): whole days and milliseconds, of which the
\* duration is days * MsPerDay + ms
signed_duration_since(now, date) == [days |-> now.days - date.days, ms |-> now.ms - date.ms]

\* A day count rounded down rather than toward zero
num_days_floor(dur) == IF dur.ms < 0 THEN dur.days - 1 ELSE dur.days

\* Duration::num_days: the duration divided by a day, the remainder dropped
\* (integer division of Rust rounds toward zero)
num_days(dur) ==
    IF dur.days > 0 /\ dur.ms < 0 THEN dur.days - 1
    ELSE IF dur.days < 0 /\ dur.ms > 0 THEN dur.days + 1
    ELSE dur.days

parse_date_and_calculate_age(date_str, now) ==
    LET date == ParsedDate(date_str)
    IN  IF date = None THEN None
        ELSE Some(num_days(signed_duration_since(now, Unwrap(date))))

\* days as f64 / 365.25, as the fraction 4 * days / 1461
Years(days) == [num |-> 4 * days, den |-> 1461]

\* ------------------------------------------------------------------------
\* Text of a number in two and in four digits
Pad2(n) == <<Digits[(n \div 10) + 1], Digits[(n % 10) + 1]>>

Pad4(n) == Pad2(n \div 100) \o Pad2(n % 100)

Ymd(y, m, d) == Pad4(y) \o <<"-">> \o Pad2(m) \o <<"-">> \o Pad2(d)

Hms(hh, mm, ss) == Pad2(hh) \o <<":">> \o Pad2(mm) \o <<":">> \o Pad2(ss)

S_T == <<"T">>
S_Z == <<"Z">>

\* "15-Sep-1997", "29-Feb-2023", "2024-3-1", "n/a"
S_dby == Pad2(15) \o <<"-", "S", "e", "p", "-">> \o Pad4(1997)
S_dbyBad == Pad2(29) \o <<"-", "F", "e", "b", "-">> \o Pad4(2023)
S_short == Pad4(2024) \o <<"-", "3", "-", "1">>
S_na == <<"n", "/", "a">>

\* The creation dates of the WHOIS records handed to check_age
CreationDates ==
    { None,
      Some(Ymd(2024, 2, 29) \o S_T \o Hms(12, 0, 0) \o S_Z),
      Some(Ymd(2024, 2, 29) \o S_T \o Hms(12, 0, 0) \o <<".", "5">> \o S_Z),
      Some(Ymd(2024, 3, 1) \o S_space \o Hms(18, 0, 0)),
      Some(Ymd(2024, 3, 2)),
      Some(Ymd(2024, 3, 3)),
      Some(Ymd(1997, 9, 15) \o S_T \o Hms(4, 0, 0) \o S_Z),
      Some(S_dby),
      Some(S_dbyBad),
      Some(S_short),
      Some(Ymd(2024, 13, 1)),
      Some(Ymd(2024, 2, 29) \o S_T \o Hms(12, 0, 0)),
      Some(Ymd(2024, 2, 29) \o S_T \o Hms(12, 0, 0) \o <<"+", "0", "0", ":", "0", "0">>),
      Some(Ymd(2024, 2, 29) \o S_T \o Hms(25, 0, 0) \o S_Z),
      Some(S_na),
      Some(<<>>) }

\* The readings of Utc::now()
Nows ==
    { Instant(2024, 3, 1, 12, 0, 0, 0),
      Instant(2024, 3, 1, 0, 0, 0, 0),
      Instant(2024, 3, 1, 12, 0, 0, 250) }

AgeDomains == {S_host, S_WWW \o S_host, S_https \o S_host \o S_slash}

\* What whois::lookup returns to check_age: always Ok, with or without a
\* creation date (the one field of the record check_age reads)
AgeWhoisResults(domain) ==
    {Ok([domain |-> domain, creation_date |-> c]) : c \in CreationDates}

DomainAge(domain, creation_date, age_days, age_years) ==
    [domain |-> domain, creation_date |-> creation_date, age_days |-> age_days,
     age_years |-> age_years]

\* A check_age that reports the years whenever the record has a date
check_age_yearsFromDate(info, now) ==
    LET days == IF info.creation_date = None THEN None
                ELSE parse_date_and_calculate_age(Unwrap(info.creation_date), now)
    IN  Ok(DomainAge(info.domain, info.creation_date, days,
                     IF info.creation_date = None THEN None
                     ELSE Some(Years(unwrap_or(days, 0)))))

\* check_age after the lookup: the two ages from the creation date
check_age(info, now) ==
    LET days == IF info.creation_date = None THEN None
                ELSE parse_date_and_calculate_age(Unwrap(info.creation_date), now)
    IN  Ok(DomainAge(info.domain, info.creation_date, days,
                     IF days = None THEN None ELSE Some(Years(Unwrap(days)))))

InitAge ==
    /\ gIn \in AgeDomains
    /\ gPc = "start"
    /\ gWhois = Pending
    /\ gNow = NoInstant
    /\ gOut = Pending
    /\ IdleNormalize /\ IdleWhois /\ IdleDns /\ IdleAvail /\ IdleBulk /\ IdleExpired
    /\ IdleQueries /\ IdleRdapLog

\* check_age: normalize_domain and whois::lookup(&domain).await
AgeLookup ==
    /\ gPc = "start"
    /\ \E result \in AgeWhoisResults(normalize_domain(gIn)) : gWhois' = result
    /\ gPc' = "parse"
    /\ UNCHANGED <<gIn, gNow, gOut, nVars, wVars, dVars, aVars, bVars, eVars, qVars, lVars>>

\* check_age: the `?` on the lookup, then the ages at the reading of the clock
AgeCompute ==
    /\ gPc = "parse"
    /\ \E now \in Nows :
        /\ gNow' = now
        /\ gOut' = IF gWhois.tag = "Err" THEN gWhois ELSE check_age(gWhois.val, now)
    /\ gPc' = "done"
    /\ UNCHANGED <<gIn, gWhois, nVars, wVars, dVars, aVars, bVars, eVars, qVars, lVars>>

NextAge == AgeLookup \/ AgeCompute

SpecAge == InitAge /\ [][NextAge]_vars

\* ------------------------------------------------------------------------
\* Claims on whois::lookup
\* ------------------------------------------------------------------------

IsOption(o) == o = None \/ Len(o) = 1

WellFormedWhoisInfo(info) ==
    /\ DOMAIN info = {"domain", "registrar", "registrant", "creation_date",
                      "expiry_date", "updated_date", "name_servers", "status",
                      "raw_data", "rdap_available"}
    /\ info.domain = wDomain
    /\ IsOption(info.registrar) /\ IsOption(info.registrant)
    /\ IsOption(info.creation_date) /\ IsOption(info.expiry_date)
    /\ IsOption(info.updated_date)
    /\ Len(info.name_servers) >= 0 /\ Len(info.status) >= 0
    /\ Len(info.raw_data) >= 0
    /\ info.rdap_available \in BOOLEAN

IsUnknownRecord(info) ==
    /\ info.raw_data # <<>>
    /\ info.raw_data[1] = "RDAP lookup failed:"

\* C3: whois::lookup never returns an error: whatever the RDAP lookup and
\* the whois program do, the result is Ok with a well-formed WhoisInfo.
C3_NeverErr ==
    /\ wResult.tag # "Err"
    /\ wPc = "done" => wResult.tag = "Ok" /\ WellFormedWhoisInfo(wResult.val)

\* C3 witness: RDAP failed, the whois program could not be spawned, and the
\* lookup returned
C3_Witness ==
    /\ wPc = "done"
    /\ wRdap = "err"
    /\ wCmd.outcome = "spawn_err"
    /\ wResult.tag = "Ok"
    /\ IsUnknownRecord(wResult.val)

\* C4: the chain is linear: the whois program is invoked only after the RDAP
\* lookup failed, at most once; the Unknown record is produced only when that
\* invocation failed; after an RDAP success the program is never spawned.
C4_LinearChain ==
    /\ wCalls.spawn > 0 => wRdap = "err"
    /\ wCalls.spawn <= 1
    /\ wRdap = "ok" => wCalls.spawn = 0 /\ wCmd.outcome = "none"
    /\ wPc = "cmdline" => wRdap = "err"
    /\ (wResult.tag = "Ok" /\ IsUnknownRecord(wResult.val)) =>
            wCalls.spawn = 1 /\ wCmd.outcome \in {"spawn_err", "join_err"}
    /\ (wResult.tag = "Ok" /\ wRdap = "ok") => wResult.val.rdap_available

\* C4 witness: an RDAP success returned without the whois program
C4_Witness ==
    /\ wPc = "done"
    /\ wRdap = "ok"
    /\ wCalls.spawn = 0
    /\ wResult.tag = "Ok"
    /\ wResult.val.rdap_available

CommandLineRan == wPc = "done" /\ wRdap = "err" /\ wCmd.outcome = "ran"

\* C5 as stated: when RDAP failed and the whois program ran, the record has
\* rdap_available = false and raw_data equal to the captured standard output.
C5_RawIsStdout ==
    CommandLineRan =>
        /\ wResult.tag = "Ok"
        /\ ~wResult.val.rdap_available
        /\ wResult.val.raw_data = wCmd.stdout

\* C5 amended: when RDAP failed and the whois program ran, whatever its exit
\* status and whether or not any field was extracted, the record has
\* rdap_available = false and raw_data is the lossy UTF-8 decoding of the
\* captured standard output: the output itself where it is valid UTF-8, the
\* replacement character in place of each invalid byte sequence.
C5_RawIsDecodedStdout ==
    CommandLineRan =>
        /\ wResult.tag = "Ok"
        /\ ~wResult.val.rdap_available
        /\ Len(wResult.val.raw_data) = Len(wCmd.stdout)
        /\ \A i \in 1..Len(wCmd.stdout) :
             wResult.val.raw_data[i] =
                IF wCmd.stdout[i] = BadByte THEN Replacement ELSE wCmd.stdout[i]

\* C5 witness: the program exited with a failure status, wrote a text no
\* field is extracted from, and the record carries that text
C5_Witness ==
    /\ CommandLineRan
    /\ wCmd.status = 1
    /\ wCmd.stdout = <<"NOT FOUND", NL>>
    /\ wResult.val.registrar = None
    /\ wResult.val.creation_date = None
    /\ wResult.val.raw_data = <<"NOT FOUND", NL>>

\* The patterns of the list that match somewhere in the text, by position
\* in the list
Hits(text, patterns) == {k \in 1..Len(patterns) : MatchStarts(text, patterns[k]) # {}}

\* The capture of the leftmost match of the first pattern of the list that
\* matches, None when no pattern does
FirstPatternCapture(text, patterns) ==
    IF Hits(text, patterns) = {} THEN None
    ELSE LET k == Min(Hits(text, patterns))
         IN  Some(CaptureAt(text, patterns[k], Min(MatchStarts(text, patterns[k]))))

\* C30: each field the fallback extracts is the capture of the first pattern
\* of its list that matches anywhere in the text, wherever the later patterns
\* match; the field is absent exactly when no pattern of the list matches
C30_FirstPatternWins ==
    CommandLineRan =>
        \A raw \in {from_utf8_lossy(wCmd.stdout)} :
            /\ wResult.val.registrar = FirstPatternCapture(raw, RegistrarPatterns)
            /\ wResult.val.registrant = FirstPatternCapture(raw, RegistrantPatterns)
            /\ wResult.val.creation_date = FirstPatternCapture(raw, CreationPatterns)
            /\ wResult.val.expiry_date = FirstPatternCapture(raw, ExpiryPatterns)
            /\ wResult.val.updated_date = FirstPatternCapture(raw, UpdatedPatterns)
            /\ (wResult.val.registrar = None) <=> (Hits(raw, RegistrarPatterns) = {})
            /\ (wResult.val.creation_date = None) <=> (Hits(raw, CreationPatterns) = {})

\* C30 witness: "Registrar Name: N1" on the first line, "Registrar: R1" on
\* the second: the third pattern matches first in the text, the first
\* pattern gives the value
C30_Witness ==
    /\ CommandLineRan
    /\ wCmd.stdout = <<"Registrar", "Name:", "N1", NL, "Registrar:", "R1", NL>>
    /\ Min(MatchStarts(wCmd.stdout, RegistrarPatterns[3]))
          < Min(MatchStarts(wCmd.stdout, RegistrarPatterns[1]))
    /\ wResult.val.registrar = Some(<<"R1">>)

\* No pattern of the registrar list matches: the field is absent
C30_WitnessAbsent ==
    /\ CommandLineRan
    /\ wCmd.stdout = <<"Creation", "Date:", "D1", NL>>
    /\ wResult.val.registrar = None
    /\ wResult.val.creation_date = Some(<<"D1">>)

\* The document the RDAP client handed to whois::lookup: the body of its
\* last request
AnsweredDoc == Unwrap(wLog[Len(wLog)].doc)

RdapAnswered ==
    /\ wLog # <<>>
    /\ wLog[Len(wLog)].req \in {"static", "bootquery"}
    /\ wLog[Len(wLog)].kind = "ok"

IsSubSeq(part, whole) ==
    \E i \in 0..(Len(whole) - Len(part)) : SubSeq(whole, i + 1, i + Len(part)) = part

\* C31: a returned record comes from one source only. rdap_available is true
\* exactly when the RDAP lookup succeeded; then the registrant is absent,
\* raw_data is the serialized document and each other field is what the
\* document alone gives, the whois program never having run. In the Unknown
\* record every optional field is absent, both lists are empty and raw_data
\* contains the error text of the RDAP lookup.
C31_OneSourceNeverMerged ==
    wPc = "done" =>
        /\ wResult.tag = "Ok"
        /\ wResult.val.rdap_available <=> RdapAnswered
        /\ RdapAnswered <=> wRdap = "ok"
        /\ RdapAnswered =>
            /\ wCmd = NoCmd
            /\ wResult.val.registrant = None
            /\ wResult.val.raw_data = to_string_pretty(AnsweredDoc)
            /\ wResult.val.registrar = extract_registrar(AnsweredDoc)
            /\ wResult.val.creation_date = extract_creation_date(AnsweredDoc)
            /\ wResult.val.expiry_date = extract_expiry_date(AnsweredDoc)
            /\ wResult.val.updated_date = extract_updated_date(AnsweredDoc)
            /\ wResult.val.name_servers = extract_nameservers(AnsweredDoc)
            /\ wResult.val.status = rdap_extract_status(AnsweredDoc)
        /\ (wRdap = "err" /\ wCmd.outcome \in {"spawn_err", "join_err"}) =>
            /\ \A f \in {"registrar", "registrant", "creation_date", "expiry_date", "updated_date"} :
                    wResult.val[f] = None
            /\ wResult.val.name_servers = <<>>
            /\ wResult.val.status = <<>>
            /\ ~wResult.val.rdap_available
            /\ IsSubSeq(RdapError(wDomain), wResult.val.raw_data)

\* C31 witness: the bootstrap server answered with the document that has a
\* registrant entity, and the record leaves the registrant absent
C31_Witness ==
    /\ wPc = "done"
    /\ RdapAnswered
    /\ wLog[Len(wLog)].req = "bootquery"
    /\ AnsweredDoc = DocHandle
    /\ wResult.val.rdap_available
    /\ wResult.val.registrant = None
    /\ wResult.val.registrar = Some("H2")

\* C31 witness: every RDAP request failed, the whois program could not be
\* run, and the record is the Unknown one
C31_WitnessUnknown ==
    /\ wPc = "done"
    /\ ~RdapAnswered
    /\ Len(wLog) = 2
    /\ wCmd.outcome = "join_err"
    /\ wResult.val.raw_data = <<"RDAP lookup failed:">> \o RdapError(wDomain)

\* The events of the answered document that are registrations with a date
Registrations(ev) ==
    {i \in 1..Len(ev) : ev[i].event_action = Some("registration") /\ ev[i].event_date # None}

\* C36: when the answered document has a registration event with a date,
\* the record's creation date is that event's date, whatever the other events
\* and their order, and the updated date comes from another event
C36_CreationIsRegistrationDate ==
    (wPc = "done" /\ RdapAnswered /\ AnsweredDoc.events # None) =>
        \A ev \in {Unwrap(AnsweredDoc.events)} :
            Registrations(ev) # {} =>
                /\ wResult.val.creation_date = ev[Min(Registrations(ev))].event_date
                /\ wResult.val.updated_date # None =>
                      /\ wResult.val.updated_date # wResult.val.creation_date
                      /\ \E j \in 1..Len(ev) :
                            /\ j \notin Registrations(ev)
                            /\ ev[j].event_date = wResult.val.updated_date

\* ------------------------------------------------------------------------
\* Claims on check_availability
\* ------------------------------------------------------------------------

AvailDone == aPc = "done" /\ aResult.tag = "Ok"

Verdict == aResult.val

HasPhrase(raw) == \E ph \in NotFoundPhrases : Contains(raw, ph)

\* C6: available = whois_available OR dns_available in every verdict; a
\* domain whose WHOIS record bears a registrar but whose A, AAAA and NS lists
\* are empty is reported available.
C6_AvailableIsOr ==
    aPc = "done" =>
        /\ aResult.tag = "Ok"
        /\ IsSome(Verdict.whois_available) /\ IsSome(Verdict.dns_available)
        /\ Verdict.available =
              (Unwrap(Verdict.whois_available) \/ Unwrap(Verdict.dns_available))
        /\ (/\ IsSome(wResult.val.registrar)
            /\ dRes.a_records = <<>>
            /\ dRes.aaaa_records = <<>>
            /\ dRes.ns_records = <<>>) => Verdict.available

\* C6 witness: an RDAP record with a registrar and no not-found phrase, no A,
\* AAAA or NS record, reported available
C6_Witness ==
    /\ AvailDone
    /\ wResult.val.registrar = Some("R1")
    /\ ~HasPhrase(wResult.val.raw_data)
    /\ dRes.a_records = <<>> /\ dRes.aaaa_records = <<>> /\ dRes.ns_records = <<>>
    /\ Verdict.whois_available = Some(FALSE)
    /\ Verdict.dns_available = Some(TRUE)
    /\ Verdict.available

\* C7: the reason is fixed by the pair (whois_available, dns_available):
\* both, WHOIS only, DNS only and neither give four different reasons, and
\* available is false exactly in the last case.
C7_ReasonByPair ==
    aPc = "done" =>
        LET wa == Unwrap(Verdict.whois_available)
            da == Unwrap(Verdict.dns_available)
        IN  /\ Cardinality({R_both, R_whois, R_dns, R_taken}) = 4
            /\ (wa /\ da) => Verdict.reason = R_both
            /\ (wa /\ ~da) => Verdict.reason = R_whois
            /\ (~wa /\ da) => Verdict.reason = R_dns
            /\ (~wa /\ ~da) => Verdict.reason = R_taken
            /\ (~Verdict.available) = (~wa /\ ~da)
            /\ (~Verdict.available) = (Verdict.reason = R_taken)

\* C7 witness: only the DNS signal says available
C7_Witness ==
    /\ AvailDone
    /\ Verdict.whois_available = Some(FALSE)
    /\ Verdict.dns_available = Some(TRUE)
    /\ Verdict.reason = R_dns

RegistrarAndA == AvailDone /\ IsSome(wResult.val.registrar) /\ dRes.a_records # <<>>

\* C8 as stated: a registrar and at least one A record give available =
\* false with the reason "registered and active", whatever the raw payload.
C8_RegisteredAnyPayload ==
    RegistrarAndA => ~Verdict.available /\ Verdict.reason = R_taken

\* C8 amended: a registrar, a raw payload that contains none of the four
\* not-found phrases, and at least one A record give available = false with
\* the reason "registered and active".
C8_RegisteredNoPhrase ==
    (RegistrarAndA /\ ~HasPhrase(wResult.val.raw_data)) =>
        ~Verdict.available /\ Verdict.reason = R_taken

\* C8 witness: the whois program printed a registrar line, DNS has an A
\* record and no name server, and the domain is reported taken
C8_Witness ==
    /\ RegistrarAndA
    /\ wCmd.outcome = "ran"
    /\ wResult.val.registrar = Some(<<"R1">>)
    /\ ~HasPhrase(wResult.val.raw_data)
    /\ dRes.ns_records = <<>> /\ dRes.aaaa_records = <<>>
    /\ ~Verdict.available
    /\ Verdict.reason = R_taken

\* The DNS result with its MX, TXT, CNAME and SOA fields emptied
WithoutOtherRecords(res) ==
    [res EXCEPT !.mx_records = <<>>, !.txt_records = <<>>, !.cname_records = <<>>,
                !.soa_record = None]

HasOtherRecords(res) ==
    /\ res.mx_records # <<>>
    /\ res.txt_records # <<>>
    /\ res.cname_records # <<>>
    /\ res.soa_record # None

\* C28: whois_available is true exactly when the raw payload has one of the
\* not-found phrases or no registrar was extracted; dns_available is true
\* exactly when the A, AAAA and NS lists are all empty; the MX, TXT, CNAME
\* and SOA records have no part in the verdict
C28_SignalsFromWhoisAndThreeLists ==
    aPc = "done" =>
        /\ Verdict.whois_available =
              Some(HasPhrase(wResult.val.raw_data) \/ wResult.val.registrar = None)
        /\ Verdict.dns_available =
              Some(dRes.a_records = <<>> /\ dRes.aaaa_records = <<>> /\ dRes.ns_records = <<>>)
        /\ aResult = check_availability(wDomain, wResult, Ok(WithoutOtherRecords(dRes)))

\* C28 witness: a registrar and no phrase, MX, TXT, CNAME and SOA records
\* but no A, AAAA or NS record: the DNS signal says available
C28_Witness ==
    /\ AvailDone
    /\ IsSome(wResult.val.registrar)
    /\ ~HasPhrase(wResult.val.raw_data)
    /\ HasOtherRecords(dRes)
    /\ dRes.a_records = <<>> /\ dRes.aaaa_records = <<>> /\ dRes.ns_records = <<>>
    /\ Verdict.whois_available = Some(FALSE)
    /\ Verdict.dns_available = Some(TRUE)

\* A registrar printed beside a not-found phrase: the WHOIS signal says
\* available
C28_WitnessPhrase ==
    /\ AvailDone
    /\ IsSome(wResult.val.registrar)
    /\ HasPhrase(wResult.val.raw_data)
    /\ Verdict.whois_available = Some(TRUE)

WhoisStep ==
    AvailWhoisStatic \/ AvailWhoisDiscovery \/ AvailWhoisBootQuery \/ AvailWhoisCommandLine

\* Every upstream of the WHOIS chain failed: no RDAP document, no whois program
WhoisFailed == wPc = "done" /\ wRdap = "err" /\ wCmd.outcome \in {"spawn_err", "join_err"}

\* Every DNS query so far came back without answers
DnsEmpty == dRes = [NoDns EXCEPT !.domain = dRes.domain]

\* C29: the two sub-lookups work on the same normalized domain and share no
\* state: a step of one leaves the other's state as it was and is possible
\* whatever the other has done or failed to do, so that both complete in
\* every interleaving, and the verdict is that of the two results alone
C29_IndependentSubLookups ==
    /\ [](aPc \in {"joining", "done"} =>
            /\ wDomain = normalize_domain(aIn)
            /\ dRes.domain = normalize_domain(aIn))
    /\ [](aPc = "joining" =>
            /\ wPc # "done" => ENABLED WhoisStep
            /\ dPc # DnsDone => ENABLED AvailDnsQuery
            /\ (wPc = "done" /\ dPc = DnsDone) => ENABLED AvailFinish)
    /\ [](aPc = "done" =>
            /\ wPc = "done" /\ dPc = DnsDone
            /\ aResult = check_availability(normalize_domain(aIn), wResult, Ok(dRes)))
    /\ [][WhoisStep => dVars' = dVars /\ aVars' = aVars]_vars
    /\ [][AvailDnsQuery => wVars' = wVars /\ aVars' = aVars]_vars
    /\ [][AvailFinish => wVars' = wVars /\ dVars' = dVars]_vars

\* C29 witness: the WHOIS chain failed at every upstream while the DNS
\* lookup got records, and the verdict was still given
C29_Witness ==
    /\ AvailDone
    /\ WhoisFailed
    /\ dRes.a_records # <<>>
    /\ dRes.ns_records # <<>>
    /\ Verdict.whois_available = Some(TRUE)
    /\ Verdict.dns_available = Some(FALSE)

\* Every DNS query failed while the WHOIS chain found a registrar
C29_WitnessDns ==
    /\ AvailDone
    /\ DnsEmpty
    /\ IsSome(wResult.val.registrar)
    /\ ~HasPhrase(wResult.val.raw_data)
    /\ Verdict.whois_available = Some(FALSE)

\* The DNS lookup has finished while the WHOIS chain has not made a request
C29_WitnessDnsFirst == aPc = "joining" /\ dPc = DnsDone /\ wPc = "rdap"

\* The WHOIS chain has finished while the DNS lookup has not made a query
C29_WitnessWhoisFirst == aPc = "joining" /\ wPc = "done" /\ dPc = 1

\* C33: when the RDAP lookup failed and the whois program could not be run,
\* the verdict has whois_available true and available true, whatever the DNS
\* queries returned
C33_UnknownMeansAvailable ==
    (aPc = "done" /\ WhoisFailed) =>
        /\ aResult.tag = "Ok"
        /\ IsUnknownRecord(wResult.val)
        /\ Verdict.whois_available = Some(TRUE)
        /\ Verdict.available

\* C33 witness: the Unknown record for a domain whose A and NS queries were
\* answered, reported available on the WHOIS signal alone
C33_Witness ==
    /\ AvailDone
    /\ WhoisFailed
    /\ dRes.a_records # <<>>
    /\ dRes.ns_records # <<>>
    /\ Verdict.dns_available = Some(FALSE)
    /\ Verdict.whois_available = Some(TRUE)
    /\ Verdict.available
    /\ Verdict.reason = R_whois

\* ------------------------------------------------------------------------
\* Claims on bulk_check
\* ------------------------------------------------------------------------

BulkDone == bPc = "done" /\ bOut.tag = "Ok"

Summary == bOut.val.summary

Inputs == 1..Len(bDomains)

\* C9: for N inputs the summary has total = N and available + taken +
\* errors = N, each input being counted in exactly one of the three counters.
C9_SummaryAddsUp ==
    bPc = "done" =>
        /\ bOut.tag = "Ok"
        /\ Summary.total = Len(bDomains)
        /\ Summary.available + Summary.taken + Summary.errors = Len(bDomains)
        /\ Summary.available =
              Cardinality({i \in Inputs : bTask[i].tag = "Ok" /\ bTask[i].val.available})
        /\ Summary.taken =
              Cardinality({i \in Inputs : bTask[i].tag = "Ok" /\ ~bTask[i].val.available})
        /\ Summary.errors = Cardinality({i \in Inputs : bTask[i].tag = "Err"})

\* C9 witness: three inputs, two of them the same string, with available
\* and taken verdicts among them
C9_Witness ==
    /\ BulkDone
    /\ Len(bDomains) = 3
    /\ bDomains[1] = bDomains[3]
    /\ Summary.total = 3
    /\ Summary.available = 2
    /\ Summary.taken = 1

\* C10: bulk_check returns one verdict per input, result i being the verdict
\* of the check started for input i, in whatever order the checks completed;
\* inputs that repeat each keep their own verdict.
C10_AlignedWithInput ==
    bPc = "done" =>
        /\ bOut.tag = "Ok"
        /\ Len(bOut.val.domains) = Len(bDomains)
        /\ \A i \in Inputs :
             /\ bOut.val.domains[i] = bTask[i].val
             /\ bOut.val.domains[i].domain = normalize_domain(bDomains[i])

\* C10 witness: the same input twice, the second check completing first, and
\* the two verdicts differ
C10_Witness ==
    /\ BulkDone
    /\ Len(bDomains) = 2
    /\ bDomains[1] = bDomains[2]
    /\ bOrder = <<2, 1>>
    /\ bOut.val.domains[1].available
    /\ ~bOut.val.domains[2].available


\* The placeholder pushed for a failed check of the raw input `domain`
IsPlaceholder(v, domain) ==
    /\ v.domain = domain
    /\ v.available = FALSE
    /\ v.reason = "Error checking domain"
    /\ v.whois_available = None
    /\ v.dns_available = None

Failed == {i \in Inputs : bTask[i].tag = "Err"}

\* C11: a failed per-domain check does not abort the batch: bulk_check still
\* returns Ok with one entry per input, the entry of a failed check being the
\* placeholder (available false, reason "Error checking domain", both
\* sub-signals absent), the entry of every other check being that check's own
\* verdict, and summary.errors being the number of failed checks.
C11_FailedCheckPlaceholder ==
    bPc = "done" =>
        /\ bOut.tag = "Ok"
        /\ Len(bOut.val.domains) = Len(bDomains)
        /\ \A i \in Inputs :
             IF i \in Failed
             THEN IsPlaceholder(bOut.val.domains[i], bDomains[i])
             ELSE bOut.val.domains[i] = bTask[i].val
        /\ Summary.errors = Cardinality(Failed)
        /\ Summary.available + Summary.taken = Len(bDomains) - Cardinality(Failed)

\* C11 witness: three checks, the second one failed, the first available and
\* the third taken, each reported at its own position
C11_Witness ==
    /\ BulkDone
    /\ Len(bDomains) = 3
    /\ Failed = {2}
    /\ Summary.errors = 1
    /\ IsPlaceholder(bOut.val.domains[2], bDomains[2])
    /\ bOut.val.domains[1].available
    /\ ~bOut.val.domains[3].available
    /\ bOut.val.domains[3].reason # "Error checking domain"

\* C32: every check of a batch returns Ok with both sub-signals present,
\* whatever its two sub-lookups returned, so the placeholder of a failed
\* check never appears: errors is 0 and available + taken is the number of
\* inputs, for every input list.
C32_NoErrorPlaceholder ==
    /\ \A i \in 1..Len(bTask) :
         bTask[i].tag # "Pending" =>
            /\ bTask[i].tag = "Ok"
            /\ IsSome(bTask[i].val.whois_available)
            /\ IsSome(bTask[i].val.dns_available)
    /\ bPc = "done" =>
        /\ bOut.tag = "Ok"
        /\ Summary.errors = 0
        /\ Summary.available + Summary.taken = Len(bDomains)
        /\ \A i \in Inputs :
             /\ bOut.val.domains[i].reason # "Error checking domain"
             /\ IsSome(bOut.val.domains[i].whois_available)
             /\ IsSome(bOut.val.domains[i].dns_available)

\* C32 witness: three inputs, no upstream source answered for any of them
\* (the Unknown record and no DNS record), and the batch counts three
\* available domains and no error
C32_Witness ==
    /\ BulkDone
    /\ Len(bDomains) = 3
    /\ \A i \in Inputs :
         /\ bOut.val.domains[i].whois_available = Some(TRUE)
         /\ bOut.val.domains[i].dns_available = Some(TRUE)
    /\ Summary.errors = 0
    /\ Summary.available = 3
    /\ Summary.taken = 0
\* ------------------------------------------------------------------------
\* Claims on the normalizer
\* ------------------------------------------------------------------------

\* C1: normalize_domain is idempotent: normalizing an already normalized
\* string gives the same string, for every input.
C1_Idempotent == nPc = "done" => nOut2 = nOut

\* What C2 states: each prefix and suffix is removed at most once.
StripOnePrefix(s, p) == IF StartsWith(s, p) THEN DropPrefix(s, Len(p)) ELSE s

StripOneSuffix(s, p) ==
    IF EndsWith(s, p) THEN SubSeq(s, 1, Len(s) - Len(p)) ELSE s

StripOneScheme(s) ==
    IF StartsWith(s, S_http) THEN DropPrefix(s, Len(S_http))
    ELSE IF StartsWith(s, S_https) THEN DropPrefix(s, Len(S_https))
    ELSE s

NormalizeOnce(x) ==
    StripOneSuffix(StripOnePrefix(StripOneScheme(to_lowercase(trim(x))), S_www),
                   S_slash)

\* C2 as stated: the output is the input trimmed, lowercased, with one
\* leading scheme, one leading "www." and one trailing "/" removed.
C2_StripsOne == nPc # "start" => nOut = NormalizeOnce(nIn)

RECURSIVE Rep(_, _)
Rep(p, k) == IF k = 0 THEN <<>> ELSE p \o Rep(p, k - 1)

\* s is k copies of p followed by a rest that does not start with p
RunThenRest(s, p, k, rest) ==
    /\ s = Rep(p, k) \o rest
    /\ ~StartsWith(rest, p)

\* C2 amended: the output is what is left of the trimmed, lowercased input
\* after the whole run of leading "http://", then the whole run of leading
\* "https://", then the whole run of leading "www.", then the whole run of
\* trailing "/" are removed; everything in between (a path) is kept.
C2_StripsRuns ==
    nPc # "start" =>
        LET lt == to_lowercase(trim(nIn))
            n == Len(lt)
        IN  \E i \in 0..(n \div Len(S_http)) :
              LET r1 == DropPrefix(lt, i * Len(S_http)) IN
              /\ RunThenRest(lt, S_http, i, r1)
              /\ \E j \in 0..(Len(r1) \div Len(S_https)) :
                   LET r2 == DropPrefix(r1, j * Len(S_https)) IN
                   /\ RunThenRest(r1, S_https, j, r2)
                   /\ \E k \in 0..(Len(r2) \div Len(S_www)) :
                        LET r3 == DropPrefix(r2, k * Len(S_www)) IN
                        /\ RunThenRest(r2, S_www, k, r3)
                        /\ \E m \in 0..Len(r3) :
                             /\ r3 = nOut \o Rep(S_slash, m)
                             /\ ~EndsWith(nOut, S_slash)

\* C2 witness: "www.www.a.com" was normalized to "a.com"
C2_Witness ==
    /\ nPc = "done"
    /\ nIn = S_www \o S_www \o S_host
    /\ nOut = S_host


\* ------------------------------------------------------------------------
\* Claims on search_expired_domains
\* ------------------------------------------------------------------------

ExpiredDone == ePc = "done" /\ eOut.tag = "Ok"

DomainsOf(list) == {list[i].domain : i \in 1..Len(list)}

\* The domains source k handed to the aggregator, none when it failed or
\* was not queried
Returned(k) == IF eRet[k].tag = "Ok" THEN eRet[k].val ELSE <<>>

SourceNames == <<"DomainsDB", "Dynadot", "NameJet", "SnapNames">>

SourceIndex(source) == CHOOSE k \in 1..Len(SourceNames) : SourceNames[k] = source

\* The requests sent so far to `req`
Calls(req) == Cardinality({i \in 1..Len(eLog) : eLog[i].req = req})

\* C12: whatever the four feeds return, the list search_expired_domains
\* builds and returns never has more than 10 entries.
C12_AtMostCap ==
    /\ Len(eDomains) <= Cap
    /\ eOut.tag = "Ok" => Len(eOut.val) <= Cap

\* C12 witness: the first two sources together return more than 10 distinct
\* matching domains and the run ends with exactly 10
C12_Witness ==
    /\ ExpiredDone
    /\ Len(eOut.val) = Cap
    /\ Returned(2) # <<>>
    /\ Cardinality(DomainsOf(Returned(1)) \cup DomainsOf(Returned(2))) > Cap

\* C13: the output never lists a domain string twice, whether the feeds
\* repeat it inside one source or across sources, and an entry tagged with a
\* source is not a domain an earlier source had already returned.
C13_NoRepeatedDomain ==
    /\ \A i, j \in 1..Len(eDomains) : eDomains[i].domain = eDomains[j].domain => i = j
    /\ eSeen = DomainsOf(eDomains)
    /\ \A i \in 1..Len(eDomains) :
         \A k \in 1..Len(SourceNames) :
            k < SourceIndex(eDomains[i].source) =>
                eDomains[i].domain \notin DomainsOf(Returned(k))
    /\ eOut.tag = "Ok" => eOut.val = eDomains

\* C13 witness: source 1 lists three names, source 2 lists them again, each
\* twice, with one more name: the output has the four names once each
C13_Witness ==
    /\ ExpiredDone
    /\ Len(Returned(1)) = ShortFeed
    /\ DomainsOf(Returned(1)) \subseteq DomainsOf(Returned(2))
    /\ Len(Returned(2)) > Cardinality(DomainsOf(Returned(2)))
    /\ Len(eOut.val) = Cardinality(DomainsOf(Returned(2)))
    /\ Len(eOut.val) > ShortFeed
    /\ eOut.val[Len(eOut.val)].source = "Dynadot"

\* C14: when the DomainsDB adapter hands 10 or more results to the
\* aggregator, no request goes to Dynadot, NameJet or SnapNames in that run.
C14_SourceOneFillsCap ==
    Len(Returned(1)) >= Cap =>
        /\ Calls("dynadot") = 0
        /\ Calls("namejet1") = 0
        /\ Calls("namejet2") = 0
        /\ Calls("snapnames") = 0

\* The step just taken sent a request that failed
FailedRequest ==
    /\ Len(eLog') = Len(eLog) + 1
    /\ eLog'[Len(eLog')].resp.kind \in FailureKinds

\* The requests that may follow `pc` in one run
LaterRequests(pc) ==
    CASE pc = "domainsdb" -> {"dynadot"}
      [] pc = "dynadot" -> {"namejet1"}
      [] pc = "namejet1" -> {"namejet2", "snapnames"}
      [] pc = "namejet2" -> {"snapnames"}
      [] OTHER -> {}

\* C15: a failed request to a source (no connection, non-success status,
\* unreadable or undecodable body) is not fatal: the list accumulated so far
\* is kept as it is, the run goes on to the next request, or ends in Ok with
\* that list after the last source; once the client is built the run never
\* ends in Err, and it ends in Ok of the empty list when every request failed.
C15_SourceFailureNotFatal ==
    /\ [](eOut.tag = "Err" => eLog = <<>>)
    /\ []((ePc = "done" /\ eLog # <<>>
            /\ \A i \in 1..Len(eLog) : eLog[i].resp.kind \in FailureKinds)
          => eOut = Ok(<<>>))
    /\ [][FailedRequest =>
            /\ eDomains' = eDomains
            /\ eSeen' = eSeen
            /\ IF ePc = "snapnames"
               THEN ePc' = "done" /\ eOut' = Ok(eDomains)
               ELSE ePc' \in LaterRequests(ePc) /\ eOut' = Pending]_vars

\* C15 witness: DomainsDB gives three names, every later request fails in
\* some way, and the run ends in Ok with the three names
C15_Witness ==
    /\ ExpiredDone
    /\ Len(eLog) = 5
    /\ eLog[1].resp.kind = "ok"
    /\ {eLog[i].resp.kind : i \in 2..5} = FailureKinds
    /\ Len(eOut.val) = ShortFeed
    /\ eOut.val = Returned(1)

\* The names the feed of a logged response lists, in the feed's order
ListedNames(resp) ==
    IF resp.kind = "ok"
    THEN [j \in 1..Len(Indices(resp.shape)) |-> Name(Indices(resp.shape)[j])]
    ELSE <<>>

RequestIndex(req) ==
    CASE req = "domainsdb" -> 1
      [] req = "dynadot" -> 2
      [] req \in {"namejet1", "namejet2"} -> 3
      [] OTHER -> 4

\* The feeds fetched from source k in this run, one after the other
RECURSIVE FeedOfFrom(_, _)
FeedOfFrom(k, i) ==
    IF i > Len(eLog) THEN <<>>
    ELSE (IF RequestIndex(eLog[i].req) = k THEN ListedNames(eLog[i].resp) ELSE <<>>)
            \o FeedOfFrom(k, i + 1)

FeedOf(k) == FeedOfFrom(k, 1)

\* Position of the first listing of `name` in a feed, 0 when it is not listed
FirstPos(feed, name) ==
    IF \E j \in 1..Len(feed) : feed[j] = name
    THEN CHOOSE j \in 1..Len(feed) :
            feed[j] = name /\ \A h \in 1..(j - 1) : feed[h] # name
    ELSE 0

\* C16: the output is ordered by source priority, and within one source by
\* the order in which that source's feed lists the domains: an entry of a
\* later source never precedes an entry of an earlier source.
C16_SourceThenFeedOrder ==
    \A i, j \in 1..Len(eDomains) :
        i < j =>
            LET ki == SourceIndex(eDomains[i].source)
                kj == SourceIndex(eDomains[j].source)
            IN  /\ ki <= kj
                /\ FirstPos(FeedOf(ki), eDomains[i].domain) > 0
                /\ ki = kj =>
                      FirstPos(FeedOf(ki), eDomains[i].domain)
                          < FirstPos(FeedOf(ki), eDomains[j].domain)

\* C16 witness: a returned list with entries of DomainsDB, Dynadot and
\* SnapNames, at least two of them of the last source
C16_Witness ==
    /\ ExpiredDone
    /\ \E a, b, c, d \in 1..Len(eOut.val) :
         /\ a < b /\ b < c /\ c < d
         /\ eOut.val[a].source = "DomainsDB"
         /\ eOut.val[b].source = "Dynadot"
         /\ eOut.val[c].source = "SnapNames"
         /\ eOut.val[d].source = "SnapNames"

\* The step just taken sent the first request of a source
SourceStarted(k) ==
    /\ Len(eLog') = Len(eLog) + 1
    /\ eLog'[Len(eLog')].req = SourcePc[k]

\* C24: the sources are queried in the order DomainsDB, Dynadot, NameJet,
\* SnapNames, each at most once in a run; source k+1 is queried only after
\* source k has returned and only with fewer than 10 domains accumulated;
\* with 10 accumulated the run is over, the last source queried being the
\* one that supplied the tenth domain
C24_StrictOrderUnderCap ==
    /\ [](/\ \A req \in {"domainsdb", "dynadot", "namejet1", "namejet2", "snapnames"} :
                Calls(req) <= 1
          /\ eLog # <<>> => eLog[1].req = "domainsdb"
          /\ \A i \in 1..(Len(eLog) - 1) :
                /\ eLog[i + 1].req \in LaterRequests(eLog[i].req)
                /\ RequestIndex(eLog[i + 1].req) - RequestIndex(eLog[i].req) \in {0, 1}
          /\ Len(eDomains) >= Cap =>
                /\ ePc = "done"
                /\ Len(eDomains) = Cap
                /\ RequestIndex(eLog[Len(eLog)].req) = SourceIndex(eDomains[Cap].source))
    /\ [][\A k \in 2..Len(SourcePc) :
            SourceStarted(k) =>
                /\ Len(eDomains) < Cap
                /\ eRet[k - 1] # Pending
                /\ \A h \in k..Len(SourcePc) : eRet[h] = Pending]_vars

\* C24 witness: the second source supplied the tenth domain while listing
\* more new ones, and neither NameJet nor SnapNames was asked
C24_Witness ==
    /\ ExpiredDone
    /\ Len(eOut.val) = Cap
    /\ Calls("domainsdb") = 1
    /\ Calls("dynadot") = 1
    /\ Calls("namejet1") + Calls("namejet2") + Calls("snapnames") = 0
    /\ eOut.val[Cap].source = "Dynadot"
    /\ ~(DomainsOf(Returned(2)) \subseteq DomainsOf(eOut.val))

\* The file of a logged response was read and lists a name the filters pass
YieldsResult(resp) ==
    \E j \in 1..Len(ListedNames(resp)) :
        /\ MatchesKeyword(ListedNames(resp)[j], eIn.keyword)
        /\ MatchesTld(ListedNames(resp)[j], eIn.tld)

\* C25: NameJet's first URL is requested before its second; the second is not
\* requested when the first file yielded a result, and it is requested when
\* the first file was read without a matching domain (or was refused)
C25_SecondUrlOnlyWithoutResult ==
    /\ \A i \in 1..Len(eLog) :
          eLog[i].req = "namejet2" => i > 1 /\ eLog[i - 1].req = "namejet1"
    /\ \A i \in 1..Len(eLog) :
          eLog[i].req = "namejet1" =>
              /\ YieldsResult(eLog[i].resp) =>
                    /\ Calls("namejet2") = 0
                    /\ eRet[3].tag = "Ok" /\ eRet[3].val # <<>>
              /\ (eLog[i].resp.kind \in {"ok", "send_err", "status"}
                    /\ ~YieldsResult(eLog[i].resp)) =>
                    /\ ePc = "namejet2" \/ Calls("namejet2") = 1
                    /\ ePc = "namejet2" <=> eRet[3] = Pending

\* C25 witness: the first file listed names none of which passed the
\* filters, the second was fetched and supplied the source's results
C25_Witness ==
    /\ ExpiredDone
    /\ \E i \in 1..(Len(eLog) - 1) :
          /\ eLog[i].req = "namejet1"
          /\ eLog[i].resp.kind = "ok"
          /\ ListedNames(eLog[i].resp) # <<>>
          /\ eLog[i + 1].req = "namejet2"
          /\ YieldsResult(eLog[i + 1].resp)
    /\ Returned(3) # <<>>

\* The first file yielded results and the run went on to SnapNames
C25_WitnessFirst ==
    /\ Calls("namejet1") = 1
    /\ Calls("namejet2") = 0
    /\ Calls("snapnames") = 1
    /\ Returned(3) # <<>>

\* `name` has the keyword somewhere, letter case apart
HasKeyword(name) ==
    \E p \in 0..(Len(name) - Len(eIn.keyword)) :
        \A j \in 1..Len(eIn.keyword) : LowerOf(name[p + j]) = LowerOf(eIn.keyword[j])

\* `name` ends with a dot and the TLD, as written
HasTld(name) ==
    /\ Len(name) > Len(eIn.tld)
    /\ name[Len(name) - Len(eIn.tld)] = "."
    /\ \A j \in 1..Len(eIn.tld) : name[Len(name) - Len(eIn.tld) + j] = eIn.tld[j]

PassesFilters(name) ==
    /\ eIn.keyword # <<>> => HasKeyword(name)
    /\ eIn.tld # <<>> => HasTld(name)

\* The pool indices a feed of the shape lists
Listed(shape) == shape.lo..(shape.lo + shape.len - 1)

HasComma(line) == \E c \in 1..Len(line) : line[c] = ","

\* The names of the lines source k's adapter reads a domain from, in the
\* feeds it fetched: every listed name, for Dynadot those of the lines with
\* two columns or more
Offered(k) ==
    UNION {{Name(x) : x \in {y \in Listed(eLog[i].resp.shape) :
                                k # 2 \/ HasComma(DynadotLine(y))}} :
           i \in {h \in 1..Len(eLog) :
                    RequestIndex(eLog[h].req) = k /\ eLog[h].resp.kind = "ok"}}

\* C26: every domain an adapter returns, and so every domain of the output,
\* has the keyword (letter case apart) when one is given and ends with
\* '.' + tld when one is given; the filters drop nothing else: an adapter
\* that stayed under its cap returned every offered name that passes them
C26_InclusiveFilters ==
    /\ \A i \in 1..Len(eDomains) : PassesFilters(eDomains[i].domain)
    /\ eOut.tag = "Ok" => \A i \in 1..Len(eOut.val) : PassesFilters(eOut.val[i].domain)
    /\ \A k \in 1..Len(SourceNames) :
          eRet[k].tag = "Ok" =>
              \A offered \in {Offered(k)}, returned \in {DomainsOf(eRet[k].val)} :
                  /\ returned \subseteq offered
                  /\ \A name \in returned : PassesFilters(name)
                  /\ Len(eRet[k].val) < Cap =>
                        \A name \in offered : PassesFilters(name) => name \in returned

\* C26 witness: keyword "S" and TLD "com"; the output has a name in small
\* "s", and a fetched feed listed a name in ".COM" that the output lacks
C26_Witness ==
    /\ ExpiredDone
    /\ eIn.keyword = <<"S">>
    /\ eIn.tld = S_com
    /\ \E i \in 1..Len(eOut.val) : eOut.val[i].domain[1] = "s"
    /\ \E k \in 1..Len(SourceNames) :
          \E name \in Offered(k) : EndsWith(name, S_COM) /\ name \notin DomainsOf(eOut.val)

\* Without keyword and TLD every offered name of a short feed is returned
C26_WitnessNoFilter ==
    /\ ExpiredDone
    /\ eIn.keyword = <<>>
    /\ eIn.tld = <<>>
    /\ Len(eOut.val) < Cap
    /\ \E k \in 1..Len(SourceNames) : \E name \in Offered(k) : EndsWith(name, S_COM)
    /\ \A k \in 1..Len(SourceNames) : Offered(k) \subseteq DomainsOf(eOut.val)

\* The number of columns of a CSV line
Columns(line) == Cardinality({c \in 1..Len(line) : line[c] = ","}) + 1

\* C27: every data line of the Dynadot feed whose column 0 passes the
\* filters yields a candidate tagged 'pending delete' whose end time,
\* appraisal and starting price are present exactly when the line has the
\* columns 1, 3 and 4, a line of the domain alone yielding a candidate with
\* none of the three
C27_EveryDataLineYields ==
    \A i \in 1..Len(eLog) :
        (/\ eLog[i].req = "dynadot"
         /\ eLog[i].resp.kind = "ok"
         /\ eRet[2].tag = "Ok"
         /\ Len(eRet[2].val) < Cap) =>
            \A x \in Listed(eLog[i].resp.shape) :
                PassesFilters(Name(x)) =>
                    \E j \in 1..Len(eRet[2].val) :
                        /\ eRet[2].val[j].domain = Name(x)
                        /\ eRet[2].val[j].status = "pending delete"
                        /\ (eRet[2].val[j].end_time # None) <=> (Columns(DynadotLine(x)) > 1)
                        /\ (eRet[2].val[j].appraisal # None) <=> (Columns(DynadotLine(x)) > 3)
                        /\ (eRet[2].val[j].starting_price # None) <=> (Columns(DynadotLine(x)) > 4)

\* C34: a run that ends with fewer than 10 entries left nothing out: every
\* name that a feed fetched in that run lists and that passes the filters is
\* in the output, however often the feeds repeat a name
C34_UnderCapNothingLeftOut ==
    (ExpiredDone /\ Len(eOut.val) < Cap) =>
        \A returned \in {DomainsOf(eOut.val)} :
            \A i \in 1..Len(eLog) :
                eLog[i].resp.kind = "ok" =>
                    \A x \in Listed(eLog[i].resp.shape) :
                        PassesFilters(Name(x)) => Name(x) \in returned

\* C35: whichever way NameJet's first URL fails (no connection, non-success
\* status, unreadable body), the second URL is requested next, and the
\* adapter hands an error to the aggregator only after both were requested
C35_SecondUrlAfterAnyFailure ==
    /\ \A i \in 1..Len(eLog) :
          (eLog[i].req = "namejet1" /\ eLog[i].resp.kind \in {"send_err", "status", "body_err"}) =>
              /\ ePc = "namejet2" \/ Calls("namejet2") = 1
              /\ ePc = "namejet2" <=> eRet[3] = Pending
    /\ eRet[3].tag = "Err" => Calls("namejet1") = 1 /\ Calls("namejet2") = 1

\* ------------------------------------------------------------------------
\* Claims on dns::lookup
\* ------------------------------------------------------------------------

FieldOf(res, type) ==
    CASE type = "A" -> res.a_records
      [] type = "AAAA" -> res.aaaa_records
      [] type = "MX" -> res.mx_records
      [] type = "TXT" -> res.txt_records
      [] type = "NS" -> res.ns_records
      [] type = "CNAME" -> res.cname_records
      [] type = "SOA" -> res.soa_record

TypeSet == {RecordTypes[i] : i \in 1..Len(RecordTypes)}

\* The step just taken sent a query
QuerySent == Len(qIssued') = Len(qIssued) + 1

QueryFailed == qLast'.kind \in {"send_err", "status", "decode_err"}

\* C17: the queries are failure-isolated. The k-th step sends the query of
\* the k-th record type and changes the field of that type only; when the
\* query ends in a network error, a non-success status or a body that does
\* not decode, that field is empty (no SOA record for SOA) and the lookup
\* goes on to the next query; lookup returns only after all seven queries,
\* and always Ok.
C17_FailureIsolated ==
    /\ [](qOut.tag # "Err")
    /\ [](qOut.tag = "Ok" => qIssued = RecordTypes /\ qOut.val = dRes)
    /\ [][QuerySent =>
            LET t == RecordTypes[Len(qIssued) + 1]
            IN  /\ qIssued' = Append(qIssued, t)
                /\ dPc' = dPc + 1
                /\ dRes'.domain = dRes.domain
                /\ \A u \in TypeSet \ {t} : FieldOf(dRes', u) = FieldOf(dRes, u)
                /\ QueryFailed => FieldOf(dRes', t) = <<>>]_vars

\* C17 witness: the A and AAAA queries found records, the MX query did not
\* decode: the MX list is empty, the two lists are kept, the TXT query is next
C17_Witness ==
    /\ qIssued = <<"A", "AAAA", "MX">>
    /\ qLast.kind = "decode_err"
    /\ dRes.a_records # <<>>
    /\ dRes.aaaa_records # <<>>
    /\ dRes.mx_records = <<>>
    /\ dPc = 4
    /\ RecordTypes[dPc] = "TXT"

\* The MX query has just been answered
MxAnswered == qIssued = <<"A", "AAAA", "MX">> /\ qLast.kind = "answers"

\* At least two tokens, the first of them a number in 0..65535
MxKept(line) ==
    /\ Len(line) >= 2
    /\ line[1].num /\ ~line[1].neg /\ line[1].hi = 0 /\ line[1].lo < Half

\* C18: an MX answer line is kept iff it has at least two whitespace tokens
\* and its first token is an unsigned 16-bit number; a kept line gives
\* priority = first token, exchange = second token; the other lines are
\* dropped, the lookup goes on, and the kept lines keep their order.
C18_MxKeptLines ==
    MxAnswered =>
        LET kept == SelectSeq(qLast.answers, MxKept)
        IN  /\ dRes.mx_records =
                  [i \in 1..Len(kept) |->
                      [priority |-> kept[i][1].lo, exchange |-> kept[i][2].s]]
            /\ dPc = 4

\* C18 witness: "20 mx6 extra", "65536 mx3", "10 mx1" give the two records
\* of priority 20 and 10, in that order
C18_Witness ==
    /\ MxAnswered
    /\ qLast.answers = << <<Num(20), Txt("mx6"), Txt("extra")>>,
                          <<Dec(FALSE, 1, 0), Txt("mx3")>>,
                          <<Num(10), Txt("mx1")>> >>
    /\ dRes.mx_records = << [priority |-> 20, exchange |-> "mx6"],
                            [priority |-> 10, exchange |-> "mx1"] >>

\* The SOA query has just been answered with at least one answer
SoaAnswered == qIssued = RecordTypes /\ qLast.kind = "answers"

\* C19 as stated: an SOA record is produced iff the first answer has
\* exactly 7 whitespace tokens.
C19_ExactlySeven ==
    SoaAnswered => (IsSome(dRes.soa_record) <=> Len(qLast.answers[1]) = 7)

\* The token is a number of the unsigned 32-bit range
InU32(tok) == tok.num /\ ~tok.neg /\ tok.hi < Half

\* The token is a number of the signed 32-bit range
InI32(tok) ==
    /\ tok.num
    /\ \/ tok.hi < Half \div 2
       \/ tok.neg /\ tok.hi = Half \div 2 /\ tok.lo = 0

OrZero(inRange, tok) == IF inRange THEN Value(tok) ELSE Zero

\* C19: an SOA record is produced iff the first SOA answer has at least 7
\* whitespace tokens (tokens after the seventh are ignored); it is built
\* from the first answer only, and each of tokens 3-7 that is not a number
\* of its 32-bit type is 0 in the record.
C19_AtLeastSeven ==
    SoaAnswered =>
        LET parts == qLast.answers[1]
        IN  IF Len(parts) < 7 THEN dRes.soa_record = None
            ELSE dRes.soa_record =
                    Some([primary_ns |-> parts[1].s,
                          responsible_party |-> parts[2].s,
                          serial |-> OrZero(InU32(parts[3]), parts[3]),
                          refresh |-> OrZero(InI32(parts[4]), parts[4]),
                          retry |-> OrZero(InI32(parts[5]), parts[5]),
                          expire |-> OrZero(InI32(parts[6]), parts[6]),
                          minimum |-> OrZero(InU32(parts[7]), parts[7])])

\* C19 witness: two answers, the first with a word for the serial, 2^31 for
\* refresh, -2^31 for retry, -2^31 - 1 for expire and -1 for minimum: the
\* record is the first answer's, with 0 everywhere but in retry
C19_Witness ==
    /\ SoaAnswered
    /\ qLast.answers = <<SoaBad, SoaOther>>
    /\ dRes.soa_record =
          Some([primary_ns |-> "ns1", responsible_party |-> "admin",
                serial |-> Zero, refresh |-> Zero,
                retry |-> [neg |-> TRUE, hi |-> Half \div 2, lo |-> 0],
                expire |-> Zero, minimum |-> Zero])

\* ------------------------------------------------------------------------
\* Claims on RdapClient::lookup_domain
\* ------------------------------------------------------------------------

InDirectory == LastLabel(wDomain) \in RdapDirectory

\* C20: when the TLD is in the directory the static server is queried first,
\* once; the discovery service is queried only when the TLD is absent from
\* the directory or after the static query failed, and never after a
\* static query that succeeded.
C20_StaticBeforeBootstrap ==
    /\ [](wCalls.static <= 1 /\ wCalls.discovery <= 1)
    /\ [](~InDirectory => wCalls.static = 0)
    /\ []((InDirectory /\ wCalls.discovery > 0) => wCalls.static = 1)
    /\ []((wRdap = "ok" /\ wCalls.bootquery = 0) =>
            wCalls.static = 1 /\ wCalls.discovery = 0)
    /\ [][wCalls'.static > wCalls.static =>
            InDirectory /\ wCalls.discovery = 0 /\ wCalls.bootquery = 0]_vars
    /\ [][wCalls'.discovery > wCalls.discovery =>
            /\ wRdap = "pending"
            /\ \/ ~InDirectory /\ wCalls.static = 0
               \/ InDirectory /\ wCalls.static = 1 /\ wPc = "bootstrap"]_vars

\* C20 witness: "a.com", whose TLD is in the directory: the static query
\* failed, then the discovery service was queried
C20_Witness ==
    /\ wDomain = S_host
    /\ InDirectory
    /\ wCalls.static = 1
    /\ wCalls.discovery = 1
    /\ wPc = "bootquery"


\* ------------------------------------------------------------------------
\* Claims on the two paths of RdapClient::lookup_domain
\* ------------------------------------------------------------------------

LookupReturned == wRdap # "pending"

Requests(req) == {i \in 1..Len(wLog) : wLog[i].req = req}

\* The addresses of the first list of the first service, as the body has them
AdvertisedUrls(services) ==
    IF services = None \/ services = Some(<<>>) THEN <<>>
    ELSE LET lists == Unwrap(services)[1]
         IN  IF lists = <<>> \/ lists[1].kind # "arr" THEN <<>> ELSE lists[1].items

\* The static path: the TLD has no server, or the one query to it failed
StaticPathFailed ==
    \/ LastLabel(wDomain) \notin RdapDirectory
    \/ \E i \in Requests("static") : wLog[i].kind # "ok"

\* The bootstrap path: discovery failed, advertised no address, or the one
\* query to the first advertised address failed
BootstrapPathFailed ==
    \/ \E i \in Requests("discovery") :
           \/ wLog[i].kind # "ok"
           \/ AdvertisedUrls(wLog[i].services) = <<>>
           \/ AdvertisedUrls(wLog[i].services)[1].kind # "str"
    \/ \E i \in Requests("bootquery") : wLog[i].kind # "ok"

\* C21: lookup_domain returns an error exactly when the static path (no
\* server for the TLD, or its query failed) and the bootstrap path (discovery
\* failed, no address advertised, or the query to the first advertised
\* address failed) both failed; nothing is requested after that, and the only
\* bootstrap query goes to the first advertised address
C21_ErrIffBothPathsFail ==
    /\ LookupReturned =>
        /\ (wRdap = "err") <=> (StaticPathFailed /\ BootstrapPathFailed)
        /\ (wRdap = "ok") <=> (wLog # <<>> /\ wLog[Len(wLog)].kind = "ok"
                                /\ wLog[Len(wLog)].req # "discovery")
        /\ wCalls.static + wCalls.discovery + wCalls.bootquery = Len(wLog)
    /\ \A req \in {"static", "discovery", "bootquery"} : Cardinality(Requests(req)) <= 1
    /\ \A i \in Requests("static") : i = 1
    /\ \A i \in Requests("bootquery") :
        /\ i > 1
        /\ wLog[i - 1].req = "discovery"
        /\ wLog[i].url = DomainUrl(AdvertisedUrls(wLog[i - 1].services)[1].s, wDomain)

\* Both paths failed on a TLD of the directory, the bootstrap query having
\* gone to the first of two advertised addresses
C21_Witness ==
    /\ wRdap = "err"
    /\ Len(wLog) = 3
    /\ wLog[1].req = "static"
    /\ Len(AdvertisedUrls(wLog[2].services)) = 2
    /\ wLog[3].url = DomainUrl(S_u1, wDomain)

\* The place of a step in the chain
Rank(pc) ==
    CASE pc = "rdap" -> 1
      [] pc = "bootstrap" -> 2
      [] pc = "bootquery" -> 3
      [] pc = "cmdline" -> 4
      [] OTHER -> 5

\* The three ways a lookup ends
TerminalStates ==
    << wRdap = "ok" /\ wCmd.outcome = "none" /\ wResult.val.rdap_available,
       wRdap = "err" /\ wCmd.outcome = "ran" /\ ~IsUnknownRecord(wResult.val),
       wRdap = "err" /\ wCmd.outcome \in {"spawn_err", "join_err"}
            /\ IsUnknownRecord(wResult.val) >>

\* C37: every external call returning, a lookup comes to its end, in exactly
\* one of the three terminal states, from which nothing more is done; on the
\* way it makes at most one static query, one discovery query, one query to
\* the discovered server and one run of the whois program, and every step
\* moves forward in the chain, none being retried or gone back to
C37_TerminatesWithoutRetry ==
    /\ <>(wPc = "done")
    /\ [](wPc = "done" =>
            /\ wResult.tag = "Ok"
            /\ Cardinality({t \in 1..3 : TerminalStates[t]}) = 1
            /\ ~ENABLED NextWhois)
    /\ [](/\ wCalls.static <= 1 /\ wCalls.discovery <= 1
          /\ wCalls.bootquery <= 1 /\ wCalls.spawn <= 1
          /\ wCalls.static = Cardinality(Requests("static"))
          /\ wCalls.discovery = Cardinality(Requests("discovery"))
          /\ wCalls.bootquery = Cardinality(Requests("bootquery")))
    /\ [][Rank(wPc') > Rank(wPc)]_vars

\* C37 witness: all four calls were made, each once, each failed, and the
\* lookup ended with the Unknown record
C37_Witness ==
    /\ wPc = "done"
    /\ wCalls = [static |-> 1, discovery |-> 1, bootquery |-> 1, spawn |-> 1]
    /\ Len(wLog) = 3
    /\ TerminalStates[3]
    /\ ~TerminalStates[1] /\ ~TerminalStates[2]

\* ------------------------------------------------------------------------
\* Claims on check_age
\* ------------------------------------------------------------------------

AgeDone == gPc = "done"

CreationDate == gWhois.val.creation_date

\* The formats in the order of the claim, each with the parser of its kind
FormatMatches(k, s) ==
    CASE k = 1 -> NaiveDateTime_parse_from_str(s, datetime_formats[1])
      [] k = 2 -> NaiveDateTime_parse_from_str(s, datetime_formats[2])
      [] k = 3 -> NaiveDate_parse_from_str(s, date_formats[1])
      [] k = 4 -> NaiveDate_parse_from_str(s, date_formats[2])

Matching(s) == {k \in 1..4 : FormatMatches(k, s) # None}

FirstMatch(s) == CHOOSE k \in Matching(s) : \A j \in Matching(s) : k <= j

\* C22: check_age returns Ok with age_days and age_years both present or both
\* absent; they are absent exactly when the record has no creation date or
\* the date matches none of the four formats, and otherwise the age is that
\* of the first format that matches
C22_BothOrNeither ==
    AgeDone =>
        /\ gOut.tag = "Ok"
        /\ (gOut.val.age_days = None) <=> (gOut.val.age_years = None)
        /\ (gOut.val.age_days = None) <=>
              (CreationDate = None \/ Matching(Unwrap(CreationDate)) = {})
        /\ gOut.val.age_days # None =>
              LET date == Unwrap(FormatMatches(FirstMatch(Unwrap(CreationDate)), Unwrap(CreationDate)))
              IN  /\ Unwrap(gOut.val.age_days) \in {gNow.days - date.days - 1, gNow.days - date.days,
                                                     gNow.days - date.days + 1}
                  /\ gOut.val.age_years = Some(Years(Unwrap(gOut.val.age_days)))

\* A record whose creation date is text of no format: Ok, both ages absent
C22_Witness ==
    /\ AgeDone
    /\ gOut.tag = "Ok"
    /\ CreationDate = Some(Ymd(2024, 2, 29) \o S_T \o Hms(12, 0, 0))
    /\ gOut.val.age_days = None
    /\ gOut.val.age_years = None

C22_WitnessParsed ==
    /\ AgeDone
    /\ CreationDate = Some(S_dby)
    /\ gOut.val.age_days # None
    /\ gOut.val.age_years # None

\* The parsed creation date of a run that produced an age
ParsedCreation == Unwrap(ParsedDate(Unwrap(CreationDate)))

\* now - parsedDate in milliseconds, for dates within twenty days of now
Elapsed == (gNow.days - ParsedCreation.days) * MsPerDay + (gNow.ms - ParsedCreation.ms)

Near == gNow.days - ParsedCreation.days \in -20..20

\* The quotient of n by d with the remainder dropped, d > 0
Truncated(n, d) == IF n >= 0 THEN n \div d ELSE -((-n) \div d)

\* C23: for a creation date that parses, age_days is the whole number of
\* days of now - parsedDate, rounded toward zero: 1 for a date exactly one
\* day back, 0 for a date less than a day ahead, negative for a date more
\* than a day ahead
C23_WholeDaysTowardZero ==
    (AgeDone /\ gOut.val.age_days # None) =>
        LET days == Unwrap(gOut.val.age_days)
        IN  /\ Near => days = Truncated(Elapsed, MsPerDay)
            /\ (Near /\ Elapsed = MsPerDay) => days = 1
            /\ (Near /\ Elapsed < 0 /\ Elapsed > -MsPerDay) => days = 0
            /\ (Near /\ Elapsed < -MsPerDay) => days < 0
            /\ ~Near => /\ days \in {gNow.days - ParsedCreation.days - 1,
                                     gNow.days - ParsedCreation.days}
                        /\ days > 0

\* A date exactly one day back gave 1
C23_Witness ==
    /\ AgeDone
    /\ gOut.val.age_days = Some(1)
    /\ Elapsed = MsPerDay

\* A date eighteen hours ahead gave 0
C23_WitnessAhead ==
    /\ AgeDone
    /\ gOut.val.age_days = Some(0)
    /\ Elapsed = -(18 * 60 * 60 * 1000)

\* A date a day and a half ahead gave -1
C23_WitnessFarAhead ==
    /\ AgeDone
    /\ gOut.val.age_days = Some(-1)
    /\ Elapsed = -(36 * 60 * 60 * 1000)
====
